---- MODULE Spec2Model ----
(***************************************************************************)
(* A model of the Nutrimama decision core: MaternalBrainState              *)
(* (app/core/state.py), Memory (app/core/memory.py), SafetyChecker         *)
(* (app/core/safety.py), ReasoningEngine (app/core/reasoning.py),          *)
(* AdaptationEngine (app/learning/adaptation.py) and the cycle driver      *)
(* Nutrimama.process_user_message (app/main.py).                           *)
(*                                                                         *)
(* Numbers.  The Python floats in [0,1] are modelled in thousandths        *)
(* (1.0 = 1000), products are rounded down to a thousandth.  Time is in    *)
(* whole hours; datetime.utcnow() is the variable now.                     *)
(***************************************************************************)
EXTENDS Integers, Sequences, FiniteSets, TLC

\* ------------------------------------------------------------------ bounds
MaxActions == 2      \* actions logged into memory
MaxTime == 95        \* hours the clock runs
MaxUpdates == 3      \* apply_ml_signal calls (update_count)
MaxAlerts == 2       \* entries of SafetyChecker.alerts / violations
MaxDecisions == 1    \* entries of ReasoningEngine.decisions_log
MaxCount == 1        \* a suggestion's success or failure count
MaxShortTime == 42   \* hours the clock runs where only the rate limit matters
MaxCycles == 3       \* process_user_message cycles
MaxFeedbacks == 2    \* apply_user_feedback calls
MaxAdaptations == 2  \* entries of the adaptation log
MaxSaves == 2        \* different (state, memory) pairs given to save_user_state

\* --------------------------------------------------------------- constants
None == "None"
NoDate == 0 - 1                    \* last_action_date is None
DAMPENING_FACTOR == 7              \* in tenths
MIN_CONFIDENCE_TO_ACT == 700
CRITICAL_THRESHOLD == 250
LOW_THRESHOLD == 400
RATE_LIMIT_HOURS == 20
RECENT_WINDOW_HOURS == 72          \* recent_action_window_days = 3

NutrientOrder == <<"iron", "protein", "calcium", "folic", "vitamin_b12", "iodine">>
Nutrients == {NutrientOrder[i] : i \in 1..Len(NutrientOrder)}

UNSAFE_FOODS_PREGNANCY ==
  {"raw_milk", "unpasteurized_cheese", "raw_eggs", "high_mercury_fish", "pate",
   "undercooked_meat", "alcohol", "raw_sprouts", "unwashed_vegetables"}
UNSAFE_FOODS_BREASTFEEDING == {"sage", "peppermint_tea_excess", "parsley_excess", "alcohol"}
CRITICAL_SYMPTOMS ==
  {"severe_bleeding", "severe_abdominal_pain", "sudden_severe_headache", "vision_changes",
   "seizures", "loss_of_consciousness", "severe_allergic_reaction"}
WARNING_SYMPTOMS ==
  {"persistent_vomiting", "severe_dizziness", "swelling_with_headache", "chest_pain",
   "shortness_of_breath"}

\* ReasoningEngine._get_foods_for_nutrient: the static food table
FoodsForNutrient(nutrient) ==
  CASE nutrient = "iron" -> <<"spinach", "red_meat", "lentils", "fortified_cereal", "pumpkin_seeds">>
    [] nutrient = "protein" -> <<"eggs", "chicken", "yogurt", "milk", "beans", "nuts", "fish">>
    [] nutrient = "calcium" -> <<"milk", "yogurt", "cheese", "fortified_milk", "dark_leafy_greens">>
    [] nutrient = "folic" -> <<"spinach", "broccoli", "lentils", "asparagus", "fortified_grains">>
    [] nutrient = "vitamin_b12" -> <<"eggs", "milk", "cheese", "meat", "fortified_cereals">>
    [] nutrient = "iodine" -> <<"iodized_salt", "fish", "seaweed", "eggs", "dairy">>
    [] OTHER -> <<>>

\* ---------------------------------------------------------------- strings
\* str.lower() on the strings the model uses
Lower(s) ==
  CASE s = "Spinach" -> "spinach"
    [] s = "LENTILS" -> "lentils"
    [] s = "Raw_Milk" -> "raw_milk"
    [] s = "Severe_Bleeding" -> "severe_bleeding"
    [] s = "Chest_Pain" -> "chest_pain"
    [] OTHER -> s

\* Python's `sub in text` on lower-cased strings of the model
Contains(text, sub) ==
  \/ text = sub
  \/ <<text, sub>> \in {<<"fortified_milk", "milk">>, <<"red_meat", "meat">>,
                        <<"fortified_cereals", "fortified_cereal">>,
                        <<"eat spinach", "spinach">>}

Range(s) == {s[i] : i \in 1..Len(s)}
Min2(a, b) == IF a < b THEN a ELSE b
Max2(a, b) == IF a > b THEN a ELSE b

\* a Python dict kept in insertion order: a sequence of <<key, value>>
DictKeys(d) == {d[i][1] : i \in 1..Len(d)}
DictGet(d, k, default) ==
  IF k \in DictKeys(d) THEN d[CHOOSE i \in 1..Len(d) : d[i][1] = k][2] ELSE default
DictSet(d, k, v) ==
  IF k \in DictKeys(d) THEN [i \in 1..Len(d) |-> IF d[i][1] = k THEN <<k, v>> ELSE d[i]]
  ELSE Append(d, <<k, v>>)

\* ------------------------------------------------------------ constructors
\* MaternalBrainState.__init__
NewState ==
  [nutrition |-> [n \in Nutrients |-> 500],
   confidence_in_state |-> [n \in Nutrients |-> 500],
   energy_level |-> 500, hydration_level |-> 500, sleep_quality |-> 500,
   stress_level |-> 500,
   pregnancy_stage |-> None, breastfeeding |-> FALSE,
   symptoms |-> {},
   last_action |-> None, last_action_date |-> NoDate,
   update_count |-> 0]

\* Memory.__init__
NewMemory ==
  [actions |-> <<>>,
   failed_suggestions |-> <<>>, successful_suggestions |-> <<>>,
   dislikes |-> {}, allergies |-> {}, contraindications |-> {}]

\* SafetyChecker.__init__
NewSafety == [violations |-> <<>>, alerts |-> <<>>]

\* ------------------------------------------------------ MaternalBrainState
\* apply_ml_signal without the clamp of the prediction
ApplyMlSignalUnclamped(st, nutrient, ml_prediction, model_confidence) ==
  IF nutrient \notin DOMAIN st.nutrition THEN st
  ELSE [st EXCEPT
          !.nutrition[nutrient] =
             (DAMPENING_FACTOR * st.nutrition[nutrient]
                + (10 - DAMPENING_FACTOR) * ml_prediction) \div 10,
          !.confidence_in_state[nutrient] =
             (5 * st.confidence_in_state[nutrient] + 5 * model_confidence) \div 10,
          !.update_count = st.update_count + 1]

\* MaternalBrainState.apply_ml_signal
apply_ml_signal(st, nutrient, ml_prediction, model_confidence) ==
  IF nutrient \notin DOMAIN st.nutrition THEN st
  ELSE LET prediction == Max2(0, Min2(1000, ml_prediction))
           old_belief == st.nutrition[nutrient]
           new_belief == (DAMPENING_FACTOR * old_belief
                            + (10 - DAMPENING_FACTOR) * prediction) \div 10
       IN [st EXCEPT
             !.nutrition[nutrient] = new_belief,
             !.confidence_in_state[nutrient] =
                (5 * st.confidence_in_state[nutrient] + 5 * model_confidence) \div 10,
             !.update_count = st.update_count + 1]

\* MaternalBrainState.apply_user_feedback
apply_user_feedback(st, nutrient, direction) ==
  IF nutrient \notin DOMAIN st.nutrition THEN st
  ELSE LET delta == CASE direction = "increase" -> 50
                      [] direction = "decrease" -> 0 - 50
                      [] OTHER -> 0
           old_belief == st.nutrition[nutrient]
           new_belief == Max2(0, Min2(1000, old_belief + delta))
       IN [st EXCEPT
             !.nutrition[nutrient] = new_belief,
             !.confidence_in_state[nutrient] =
                Min2(1000, st.confidence_in_state[nutrient] + 150)]

\* MaternalBrainState.report_symptom
report_symptom(st, symptom) == [st EXCEPT !.symptoms = st.symptoms \cup {Lower(symptom)}]

\* MaternalBrainState.clear_symptoms
clear_symptoms(st) == [st EXCEPT !.symptoms = {}]

\* ------------------------------------------------------------------ Memory
\* the id log_action gives: f"{user_id}_{len(actions)}_{utcnow().timestamp()}"
ActionId(mem, t) == <<Len(mem.actions), t>>

\* Memory.log_action (the new action; its id is ActionId(mem, t))
log_action(mem, action_type, action_text, reason, nutrients_targeted, t) ==
  [mem EXCEPT !.actions = Append(mem.actions,
     [action_id |-> ActionId(mem, t), timestamp |-> t,
      action_type |-> action_type, action_text |-> action_text, reason |-> reason,
      nutrients_targeted |-> nutrients_targeted,
      outcome |-> None, outcome_text |-> None, outcome_recorded_at |-> NoDate])]

\* the first action with this id, 0 if there is none (the loop of record_outcome
\* and of get_action_by_id)
FindAction(mem, action_id) ==
  LET hits == {i \in 1..Len(mem.actions) : mem.actions[i].action_id = action_id}
  IN IF hits = {} THEN 0 ELSE CHOOSE i \in hits : \A j \in hits : i <= j

\* record_outcome counting every outcome that is not positive as a failure
RecordOutcomeFailsUnlessPositive(mem, action_id, outcome, outcome_text, t) ==
  LET i == FindAction(mem, action_id) IN
  IF i = 0 THEN [ok |-> FALSE, memory |-> mem]
  ELSE
    LET text == mem.actions[i].action_text
        m1 == [mem EXCEPT !.actions[i].outcome = outcome,
                          !.actions[i].outcome_text = outcome_text,
                          !.actions[i].outcome_recorded_at = t]
        m2 == IF outcome = "positive"
              THEN [m1 EXCEPT !.successful_suggestions =
                      DictSet(m1.successful_suggestions, text,
                              DictGet(m1.successful_suggestions, text, 0) + 1)]
              ELSE [m1 EXCEPT !.failed_suggestions =
                      DictSet(m1.failed_suggestions, text,
                              DictGet(m1.failed_suggestions, text, 0) + 1),
                      !.dislikes = m1.dislikes \cup {text}]
    IN [ok |-> TRUE, memory |-> m2]

\* Memory.record_outcome: [ok, memory]
record_outcome(mem, action_id, outcome, outcome_text, t) ==
  LET i == FindAction(mem, action_id) IN
  IF i = 0 THEN [ok |-> FALSE, memory |-> mem]
  ELSE
    LET text == mem.actions[i].action_text
        m1 == [mem EXCEPT !.actions[i].outcome = outcome,
                          !.actions[i].outcome_text = outcome_text,
                          !.actions[i].outcome_recorded_at = t]
        m2 == IF outcome = "positive"
              THEN [m1 EXCEPT !.successful_suggestions =
                      DictSet(m1.successful_suggestions, text,
                              DictGet(m1.successful_suggestions, text, 0) + 1)]
              ELSE IF outcome = "negative"
              THEN [m1 EXCEPT !.failed_suggestions =
                      DictSet(m1.failed_suggestions, text,
                              DictGet(m1.failed_suggestions, text, 0) + 1),
                      !.dislikes = m1.dislikes \cup {text}]
              ELSE m1
    IN [ok |-> TRUE, memory |-> m2]

\* Memory.get_action_by_id (the index, 0 for None)
get_action_by_id(mem, action_id) == FindAction(mem, action_id)

\* should_avoid_suggestion without the learned failures
ShouldAvoidBoundariesOnly(mem, suggestion) ==
  suggestion \in mem.contraindications

\* Memory.should_avoid_suggestion
should_avoid_suggestion(mem, suggestion) ==
  \/ suggestion \in mem.dislikes
  \/ suggestion \in mem.contraindications
  \/ suggestion \in DictKeys(mem.failed_suggestions)

\* Memory.was_recently_suggested: scans from the most recent action backward and
\* stops at the first action older than the cutoff
RECURSIVE RecentScan(_, _, _, _)
RecentScan(acts, i, suggestion, cutoff) ==
  IF i = 0 THEN FALSE
  ELSE IF acts[i].timestamp < cutoff THEN FALSE
  ELSE IF Contains(Lower(acts[i].action_text), Lower(suggestion)) THEN TRUE
  ELSE RecentScan(acts, i - 1, suggestion, cutoff)

\* was_recently_suggested with a window of one day
WasRecentlySuggestedOneDay(mem, suggestion, t) ==
  RecentScan(mem.actions, Len(mem.actions), suggestion, t - 24)

was_recently_suggested(mem, suggestion, t) ==
  RecentScan(mem.actions, Len(mem.actions), suggestion, t - RECENT_WINDOW_HOURS)

\* sorted(items, key=count, reverse=True): a stable sort, equal counts keep the
\* dict's insertion order
InsertDesc(sorted, x) ==
  LET p == Cardinality({i \in 1..Len(sorted) : sorted[i][2] >= x[2]})
  IN SubSeq(sorted, 1, p) \o <<x>> \o SubSeq(sorted, p + 1, Len(sorted))

RECURSIVE SortDesc(_, _)
SortDesc(d, k) == IF k = 0 THEN <<>> ELSE InsertDesc(SortDesc(d, k - 1), d[k])

\* Memory.get_successful_patterns
get_successful_patterns(mem) ==
  SortDesc(mem.successful_suggestions, Len(mem.successful_suggestions))

\* Memory.get_failed_patterns
get_failed_patterns(mem) ==
  SortDesc(mem.failed_suggestions, Len(mem.failed_suggestions))

\* add_contraindication keeping the letter case it is given
AddContraindicationNoLower(mem, suggestion) ==
  [mem EXCEPT !.contraindications = mem.contraindications \cup {suggestion}]

\* Memory.add_contraindication
add_contraindication(mem, suggestion) ==
  [mem EXCEPT !.contraindications = mem.contraindications \cup {Lower(suggestion)}]

\* Memory.add_allergy
add_allergy(mem, allergen) ==
  [mem EXCEPT !.allergies = mem.allergies \cup {Lower(allergen)},
              !.contraindications = mem.contraindications \cup {Lower(allergen)}]

\* ----------------------------------------------------------- SafetyChecker
NoAlert == [level |-> None, symptom |-> None, nutrients |-> <<>>, fatigue |-> FALSE]

\* check_food_safety without the breastfeeding rule
CheckFoodSafetyPregnancyOnly(saf, food, pregnancy_stage, breastfeeding) ==
  LET food_lower == Lower(food) IN
  IF pregnancy_stage # None /\ pregnancy_stage # "planning"
       /\ food_lower \in UNSAFE_FOODS_PREGNANCY
  THEN LET reason == [rule |-> "pregnancy", food |-> food]
       IN [safe |-> FALSE, reason |-> reason,
           safety |-> [saf EXCEPT !.violations = Append(saf.violations, reason)]]
  ELSE [safe |-> TRUE, reason |-> [rule |-> None, food |-> food], safety |-> saf]

\* SafetyChecker.check_food_safety: [safe, reason, safety]
check_food_safety(saf, food, pregnancy_stage, breastfeeding) ==
  LET food_lower == Lower(food) IN
  IF pregnancy_stage # None /\ pregnancy_stage # "planning"
       /\ food_lower \in UNSAFE_FOODS_PREGNANCY
  THEN LET reason == [rule |-> "pregnancy", food |-> food]
       IN [safe |-> FALSE, reason |-> reason,
           safety |-> [saf EXCEPT !.violations = Append(saf.violations, reason)]]
  ELSE IF breastfeeding /\ food_lower \in UNSAFE_FOODS_BREASTFEEDING
  THEN LET reason == [rule |-> "breastfeeding", food |-> food]
       IN [safe |-> FALSE, reason |-> reason,
           safety |-> [saf EXCEPT !.violations = Append(saf.violations, reason)]]
  ELSE [safe |-> TRUE, reason |-> [rule |-> None, food |-> food], safety |-> saf]

\* check_critical_symptom matching the symptom as it was typed
CheckCriticalSymptomCaseSensitive(saf, symptom) ==
  IF symptom \in CRITICAL_SYMPTOMS
  THEN LET alert == [level |-> "critical", symptom |-> symptom,
                     nutrients |-> <<>>, fatigue |-> FALSE]
       IN [safe |-> FALSE, msg |-> alert,
           safety |-> [saf EXCEPT !.alerts = Append(saf.alerts, alert)]]
  ELSE IF symptom \in WARNING_SYMPTOMS
  THEN LET alert == [level |-> "warning", symptom |-> symptom,
                     nutrients |-> <<>>, fatigue |-> FALSE]
       IN [safe |-> TRUE, msg |-> alert,
           safety |-> [saf EXCEPT !.alerts = Append(saf.alerts, alert)]]
  ELSE [safe |-> TRUE, msg |-> NoAlert, safety |-> saf]

\* SafetyChecker.check_critical_symptom: [safe, msg, safety]
check_critical_symptom(saf, symptom) ==
  LET symptom_lower == Lower(symptom) IN
  IF symptom_lower \in CRITICAL_SYMPTOMS
  THEN LET alert == [level |-> "critical", symptom |-> symptom,
                     nutrients |-> <<>>, fatigue |-> FALSE]
       IN [safe |-> FALSE, msg |-> alert,
           safety |-> [saf EXCEPT !.alerts = Append(saf.alerts, alert)]]
  ELSE IF symptom_lower \in WARNING_SYMPTOMS
  THEN LET alert == [level |-> "warning", symptom |-> symptom,
                     nutrients |-> <<>>, fatigue |-> FALSE]
       IN [safe |-> TRUE, msg |-> alert,
           safety |-> [saf EXCEPT !.alerts = Append(saf.alerts, alert)]]
  ELSE [safe |-> TRUE, msg |-> NoAlert, safety |-> saf]

\* SafetyChecker.clear_violations
clear_violations(saf) == [saf EXCEPT !.violations = <<>>]

\* clear_alerts leaving the alerts where they are
ClearAlertsKeepsThem(saf) == saf

\* SafetyChecker.clear_alerts
clear_alerts(saf) == [saf EXCEPT !.alerts = <<>>]

\* SafetyChecker.check_state_for_alerts: [raised, alert, safety]; the subscript
\* state.confidence_in_state[n] of a nutrient below 0.2 that has no confidence
\* entry raises KeyError
check_state_for_alerts(saf, st) ==
  IF \E n \in DOMAIN st.nutrition :
        st.nutrition[n] < 200 /\ n \notin DOMAIN st.confidence_in_state
  THEN [raised |-> TRUE, alert |-> NoAlert, safety |-> saf]
  ELSE
  LET critical_nutrients ==
        SelectSeq(NutrientOrder,
                  LAMBDA n : n \in DOMAIN st.nutrition /\ st.nutrition[n] < 200
                             /\ st.confidence_in_state[n] > 800)
      fatigue == st.energy_level < 300 /\ st.sleep_quality < 300
  IN IF critical_nutrients # <<>> \/ fatigue
     THEN LET combined == [level |-> "state", symptom |-> None,
                           nutrients |-> critical_nutrients, fatigue |-> fatigue]
          IN [raised |-> FALSE, alert |-> combined,
              safety |-> [saf EXCEPT !.alerts = Append(saf.alerts, combined)]]
     ELSE [raised |-> FALSE, alert |-> NoAlert, safety |-> saf]

\* --------------------------------------------------------- ReasoningEngine
Details(nutrient, food, symptom, alert, text) ==
  [nutrient |-> nutrient, food |-> food, symptom |-> symptom, alert |-> alert, text |-> text]

\* a rate limit that already ends at exactly 20 hours
ShouldTakeActionAtTwentyHours(st, t) ==
  IF st.last_action_date = NoDate THEN TRUE
  ELSE t - st.last_action_date >= RATE_LIMIT_HOURS

\* ReasoningEngine._should_take_action_today
_should_take_action_today(st, t) ==
  IF st.last_action_date = NoDate THEN TRUE
  ELSE t - st.last_action_date > RATE_LIMIT_HOURS

\* an ascending sort that puts the later of two equal values first
InsertAscUnstable(sorted, x) ==
  LET p == Cardinality({i \in 1..Len(sorted) : sorted[i][2] < x[2]})
  IN SubSeq(sorted, 1, p) \o <<x>> \o SubSeq(sorted, p + 1, Len(sorted))

\* sorted(items, key=value): a stable ascending sort of <<nutrient, value>> pairs
InsertAsc(sorted, x) ==
  LET p == Cardinality({i \in 1..Len(sorted) : sorted[i][2] <= x[2]})
  IN SubSeq(sorted, 1, p) \o <<x>> \o SubSeq(sorted, p + 1, Len(sorted))

RECURSIVE SortAsc(_, _)
SortAsc(d, k) == IF k = 0 THEN <<>> ELSE InsertAsc(SortAsc(d, k - 1), d[k])

\* state.nutrition.items(), in the dict's order
NutritionItems(st) ==
  LET keys == SelectSeq(NutrientOrder, LAMBDA n : n \in DOMAIN st.nutrition)
  IN [i \in 1..Len(keys) |-> <<keys[i], st.nutrition[keys[i]]>>]

\* ReasoningEngine._find_pressing_nutrient (None when there is none)
_find_pressing_nutrient(st) ==
  LET items == SelectSeq(NutritionItems(st),
                 LAMBDA x : (IF x[1] \in DOMAIN st.confidence_in_state
                             THEN st.confidence_in_state[x[1]] ELSE 0) > 700)
      crit == SelectSeq(items, LAMBDA x : x[2] < CRITICAL_THRESHOLD)
      critical == SortAsc(crit, Len(crit))
      lo == SelectSeq(items, LAMBDA x : CRITICAL_THRESHOLD <= x[2] /\ x[2] < LOW_THRESHOLD)
      low == SortAsc(lo, Len(lo))
  IN IF items = <<>> THEN None
     ELSE IF critical # <<>> THEN critical[1][1]
     ELSE IF low # <<>> THEN low[1][1]
     ELSE None

\* a candidate list that keeps the successful foods of other nutrients
CandidatesUnfiltered(nutrient, mem) ==
  LET successful == get_successful_patterns(mem)
      foods_for_nutrient == FoodsForNutrient(nutrient)
      successful_foods == [i \in 1..Len(successful) |-> successful[i][1]]
      remaining_foods == SelectSeq(foods_for_nutrient,
                                   LAMBDA f : f \notin Range(successful_foods))
  IN successful_foods \o remaining_foods

\* the candidate list of _suggest_for_nutrient: successful foods of this nutrient
\* by success count, then the remaining foods in table order
Candidates(nutrient, mem) ==
  LET successful == get_successful_patterns(mem)
      foods_for_nutrient == FoodsForNutrient(nutrient)
      succ == SelectSeq(successful, LAMBDA x : x[1] \in Range(foods_for_nutrient))
      successful_foods == [i \in 1..Len(succ) |-> succ[i][1]]
      remaining_foods == SelectSeq(foods_for_nutrient,
                                   LAMBDA f : f \notin Range(successful_foods))
  IN successful_foods \o remaining_foods

\* a loop that takes the last acceptable candidate, not the first
RECURSIVE CandidateScanLast(_, _, _, _, _, _)
CandidateScanLast(cands, i, st, mem, saf, t) ==
  IF i > Len(cands) THEN [found |-> FALSE, food |-> None, safety |-> saf]
  ELSE LET rest == CandidateScanLast(cands, i + 1, st, mem, saf, t)
           ok == /\ ~should_avoid_suggestion(mem, cands[i])
                 /\ ~was_recently_suggested(mem, cands[i], t)
                 /\ check_food_safety(saf, cands[i], st.pregnancy_stage, st.breastfeeding).safe
       IN IF rest.found \/ ~ok THEN rest
          ELSE [found |-> TRUE, food |-> cands[i], safety |-> saf]

\* the loop of _suggest_for_nutrient from candidate i on: [found, food, safety]
RECURSIVE CandidateScan(_, _, _, _, _, _)
CandidateScan(cands, i, st, mem, saf, t) ==
  IF i > Len(cands) THEN [found |-> FALSE, food |-> None, safety |-> saf]
  ELSE IF should_avoid_suggestion(mem, cands[i]) THEN CandidateScan(cands, i + 1, st, mem, saf, t)
  ELSE IF was_recently_suggested(mem, cands[i], t) THEN CandidateScan(cands, i + 1, st, mem, saf, t)
  ELSE LET c == check_food_safety(saf, cands[i], st.pregnancy_stage, st.breastfeeding)
       IN IF ~c.safe THEN CandidateScan(cands, i + 1, st, mem, c.safety, t)
          ELSE [found |-> TRUE, food |-> cands[i], safety |-> c.safety]

\* ReasoningEngine._suggest_for_nutrient: [action_type, details, safety]
_suggest_for_nutrient(nutrient, st, mem, saf, t) ==
  LET r == CandidateScan(Candidates(nutrient, mem), 1, st, mem, saf, t) IN
  IF r.found
  THEN [action_type |-> "suggest_food",
        details |-> Details(nutrient, r.food, None, NoAlert, None), safety |-> r.safety]
  ELSE [action_type |-> "check_in",
        details |-> Details(nutrient, None, None, NoAlert, "question_nutrient"),
        safety |-> r.safety]

\* _suggest_lifestyle testing the hydration before the rest
SuggestLifestyleWaterFirst(st) ==
  IF st.hydration_level < 400
  THEN [action_type |-> "suggest_water",
        details |-> Details(None, None, None, NoAlert, "glasses")]
  ELSE IF st.energy_level < 400 /\ st.sleep_quality < 500
  THEN [action_type |-> "suggest_rest",
        details |-> Details(None, None, None, NoAlert, "Try to get more sleep tonight")]
  ELSE [action_type |-> "observe", details |-> Details(None, None, None, NoAlert, None)]

\* ReasoningEngine._suggest_lifestyle: [action_type, details]
_suggest_lifestyle(st) ==
  IF st.energy_level < 400 /\ st.sleep_quality < 500
  THEN [action_type |-> "suggest_rest",
        details |-> Details(None, None, None, NoAlert, "Try to get more sleep tonight")]
  ELSE IF st.hydration_level < 400
  THEN [action_type |-> "suggest_water",
        details |-> Details(None, None, None, NoAlert, "glasses")]
  ELSE [action_type |-> "observe", details |-> Details(None, None, None, NoAlert, None)]

\* the loop of step 2 of decide leaving at the first symptom that produces a
\* warning
RECURSIVE SymptomScanStopsAtWarning(_, _, _)
SymptomScanStopsAtWarning(ord, i, saf) ==
  IF i > Len(ord) THEN [hit |-> FALSE, symptom |-> None, msg |-> NoAlert, safety |-> saf]
  ELSE LET c == check_critical_symptom(saf, ord[i])
       IN IF ~c.safe THEN [hit |-> TRUE, symptom |-> ord[i], msg |-> c.msg, safety |-> c.safety]
          ELSE IF c.msg # NoAlert
          THEN [hit |-> FALSE, symptom |-> None, msg |-> NoAlert, safety |-> c.safety]
          ELSE SymptomScanStopsAtWarning(ord, i + 1, c.safety)

\* the loop of step 2 of decide over the symptoms in iteration order ord
RECURSIVE SymptomScan(_, _, _)
SymptomScan(ord, i, saf) ==
  IF i > Len(ord) THEN [hit |-> FALSE, symptom |-> None, msg |-> NoAlert, safety |-> saf]
  ELSE LET c == check_critical_symptom(saf, ord[i])
       IN IF ~c.safe THEN [hit |-> TRUE, symptom |-> ord[i], msg |-> c.msg, safety |-> c.safety]
          ELSE SymptomScan(ord, i + 1, c.safety)

\* ReasoningEngine._record_decision
_record_decision(log, action_type, details, t) ==
  Append(log, [timestamp |-> t, action_type |-> action_type, details |-> details])

\* steps 1 and 2 of ReasoningEngine.decide, the symptom set iterated in order
\* ord: [raised, hit, action_type, details, safety]
AlertPath(st, saf, ord) ==
  LET a == check_state_for_alerts(saf, st) IN
  IF a.raised
  THEN [raised |-> TRUE, hit |-> FALSE, action_type |-> None,
        details |-> Details(None, None, None, NoAlert, None), safety |-> saf]
  ELSE IF a.alert # NoAlert \/ a.safety.alerts # <<>>
  THEN [raised |-> FALSE, hit |-> TRUE, action_type |-> "alert_medical",
        details |-> Details(None, None, None,
                            IF a.alert # NoAlert THEN a.alert ELSE a.safety.alerts[1], None),
        safety |-> a.safety]
  ELSE
  LET sc == SymptomScan(ord, 1, a.safety) IN
  IF sc.hit
  THEN [raised |-> FALSE, hit |-> TRUE, action_type |-> "alert_medical",
        details |-> Details(None, None, sc.symptom, sc.msg, None),
        safety |-> sc.safety]
  ELSE [raised |-> FALSE, hit |-> FALSE, action_type |-> None,
        details |-> Details(None, None, None, NoAlert, None), safety |-> sc.safety]

\* steps 3 to 6 of decide with the nutrient's CHECK_IN treated like OBSERVE:
\* it goes on to the lifestyle step
RoutinePathFallsThrough(st, mem, saf, log, t) ==
  IF ~_should_take_action_today(st, t)
  THEN [action_type |-> "observe",
        details |-> Details(None, None, None, NoAlert, "No urgent action needed"),
        safety |-> saf, decisions_log |-> log]
  ELSE
  LET pressing_nutrient == _find_pressing_nutrient(st)
      r == IF pressing_nutrient # None
           THEN _suggest_for_nutrient(pressing_nutrient, st, mem, saf, t)
           ELSE [action_type |-> "observe",
                 details |-> Details(None, None, None, NoAlert, None), safety |-> saf]
      l == _suggest_lifestyle(st)
  IN
  IF r.action_type = "suggest_food"
  THEN [action_type |-> r.action_type, details |-> r.details, safety |-> r.safety,
        decisions_log |-> _record_decision(log, r.action_type, r.details, t)]
  ELSE IF l.action_type # "observe"
  THEN [action_type |-> l.action_type, details |-> l.details, safety |-> r.safety,
        decisions_log |-> _record_decision(log, l.action_type, l.details, t)]
  ELSE IF r.action_type = "check_in"
  THEN [action_type |-> r.action_type, details |-> r.details, safety |-> r.safety,
        decisions_log |-> _record_decision(log, r.action_type, r.details, t)]
  ELSE [action_type |-> "check_in",
        details |-> Details(None, None, None, NoAlert, "How are you feeling today?"),
        safety |-> saf, decisions_log |-> log]

\* steps 3 to 6 of ReasoningEngine.decide at time t:
\* [action_type, details, safety, decisions_log]
RoutinePath(st, mem, saf, log, t) ==
  IF ~_should_take_action_today(st, t)
  THEN [action_type |-> "observe",
        details |-> Details(None, None, None, NoAlert, "No urgent action needed"),
        safety |-> saf, decisions_log |-> log]
  ELSE
  LET pressing_nutrient == _find_pressing_nutrient(st) IN
  IF pressing_nutrient # None
  THEN LET r == _suggest_for_nutrient(pressing_nutrient, st, mem, saf, t)
       IN [action_type |-> r.action_type, details |-> r.details, safety |-> r.safety,
           decisions_log |-> _record_decision(log, r.action_type, r.details, t)]
  ELSE
  LET l == _suggest_lifestyle(st) IN
  IF l.action_type # "observe"
  THEN [action_type |-> l.action_type, details |-> l.details, safety |-> saf,
        decisions_log |-> _record_decision(log, l.action_type, l.details, t)]
  ELSE [action_type |-> "check_in",
        details |-> Details(None, None, None, NoAlert, "How are you feeling today?"),
        safety |-> saf, decisions_log |-> log]

\* decide with the rate limit tested before the alert steps
DecideRateLimitFirst(st, mem, saf, log, t, ord) ==
  IF ~_should_take_action_today(st, t)
  THEN [raised |-> FALSE, action_type |-> "observe",
        details |-> Details(None, None, None, NoAlert, "No urgent action needed"),
        safety |-> saf, decisions_log |-> log]
  ELSE LET a == AlertPath(st, saf, ord) IN
       IF a.raised \/ a.hit
       THEN [raised |-> a.raised, action_type |-> a.action_type, details |-> a.details,
             safety |-> a.safety, decisions_log |-> log]
       ELSE LET r == RoutinePath(st, mem, a.safety, log, t)
            IN [raised |-> FALSE, action_type |-> r.action_type, details |-> r.details,
                safety |-> r.safety, decisions_log |-> r.decisions_log]

\* ReasoningEngine.decide at time t: [raised, action_type, details, safety,
\* decisions_log]; decide catches nothing, so what check_state_for_alerts raises
\* leaves decide
decide(st, mem, saf, log, t, ord) ==
  LET a == AlertPath(st, saf, ord) IN
  IF a.raised \/ a.hit
  THEN [raised |-> a.raised, action_type |-> a.action_type, details |-> a.details,
        safety |-> a.safety, decisions_log |-> log]
  ELSE LET r == RoutinePath(st, mem, a.safety, log, t)
       IN [raised |-> FALSE, action_type |-> r.action_type, details |-> r.details,
           safety |-> r.safety, decisions_log |-> r.decisions_log]

\* the orders a Python set of symptoms can be iterated in
Orders(S) ==
  {o \in [1..Cardinality(S) -> S] : \A i, j \in 1..Cardinality(S) : o[i] = o[j] => i = j}

\* -------------------------------------------------------- AdaptationEngine
\* the loops of AdaptationEngine._update_state_from_outcome over the targeted
\* nutrients from the i-th on: [raised, state]; an unknown nutrient raises KeyError
\* _update_state_from_outcome's loops without the floor under the confidence
RECURSIVE OutcomeLoopNoFloor(_, _, _, _)
OutcomeLoopNoFloor(st, nutrients, i, outcome) ==
  IF i > Len(nutrients) THEN [raised |-> FALSE, state |-> st]
  ELSE LET n == nutrients[i] IN
       IF n \notin DOMAIN st.confidence_in_state THEN [raised |-> TRUE, state |-> st]
       ELSE IF outcome = "positive"
       THEN IF n \notin DOMAIN st.nutrition
            THEN [raised |-> TRUE,
                  state |-> [st EXCEPT !.confidence_in_state[n] =
                                          Min2(1000, st.confidence_in_state[n] + 100)]]
            ELSE OutcomeLoopNoFloor(
                   [st EXCEPT !.confidence_in_state[n] =
                                 Min2(1000, st.confidence_in_state[n] + 100),
                              !.nutrition[n] = Min2(1000, st.nutrition[n] + 50)],
                   nutrients, i + 1, outcome)
       ELSE OutcomeLoopNoFloor(
              [st EXCEPT !.confidence_in_state[n] = st.confidence_in_state[n] - 100],
              nutrients, i + 1, outcome)

RECURSIVE OutcomeLoop(_, _, _, _)
OutcomeLoop(st, nutrients, i, outcome) ==
  IF i > Len(nutrients) THEN [raised |-> FALSE, state |-> st]
  ELSE LET n == nutrients[i] IN
       IF n \notin DOMAIN st.confidence_in_state THEN [raised |-> TRUE, state |-> st]
       ELSE IF outcome = "positive"
       THEN IF n \notin DOMAIN st.nutrition
            THEN [raised |-> TRUE,
                  state |-> [st EXCEPT !.confidence_in_state[n] =
                                          Min2(1000, st.confidence_in_state[n] + 100)]]
            ELSE OutcomeLoop(
                   [st EXCEPT !.confidence_in_state[n] =
                                 Min2(1000, st.confidence_in_state[n] + 100),
                              !.nutrition[n] = Min2(1000, st.nutrition[n] + 50)],
                   nutrients, i + 1, outcome)
       ELSE OutcomeLoop(
              [st EXCEPT !.confidence_in_state[n] =
                            Max2(300, st.confidence_in_state[n] - 100)],
              nutrients, i + 1, outcome)

\* AdaptationEngine._update_state_from_outcome: [raised, state]
_update_state_from_outcome(mem, action_id, outcome, st) ==
  LET i == get_action_by_id(mem, action_id) IN
  IF i = 0 THEN [raised |-> FALSE, state |-> st]
  ELSE IF outcome \in {"positive", "negative"}
  THEN OutcomeLoop(st, mem.actions[i].nutrients_targeted, 1, outcome)
  ELSE [raised |-> FALSE, state |-> st]

\* learn_from_outcome writing its audit entry before it looks the action up
LearnFromOutcomeLogsFirst(mem, st, alog, action_id, outcome, outcome_text, with_state, t) ==
  LET r == record_outcome(mem, action_id, outcome, outcome_text, t)
      logged == Append(alog, [timestamp |-> t, action_id |-> action_id,
                              outcome |-> outcome, outcome_text |-> outcome_text])
  IN
  IF ~r.ok
  THEN [ok |-> FALSE, raised |-> FALSE, memory |-> mem, state |-> st,
        adaptation_log |-> logged]
  ELSE LET u == IF with_state THEN _update_state_from_outcome(r.memory, action_id, outcome, st)
                ELSE [raised |-> FALSE, state |-> st]
       IN [ok |-> ~u.raised, raised |-> u.raised, memory |-> r.memory, state |-> u.state,
           adaptation_log |-> logged]

\* AdaptationEngine.learn_from_outcome: [ok, raised, memory, state, adaptation_log]
learn_from_outcome(mem, st, alog, action_id, outcome, outcome_text, with_state, t) ==
  LET r == record_outcome(mem, action_id, outcome, outcome_text, t) IN
  IF ~r.ok
  THEN [ok |-> FALSE, raised |-> FALSE, memory |-> mem, state |-> st, adaptation_log |-> alog]
  ELSE LET u == IF with_state THEN _update_state_from_outcome(r.memory, action_id, outcome, st)
                ELSE [raised |-> FALSE, state |-> st]
       IN IF u.raised
          THEN [ok |-> FALSE, raised |-> TRUE, memory |-> r.memory, state |-> u.state,
                adaptation_log |-> alog]
          ELSE [ok |-> TRUE, raised |-> FALSE, memory |-> r.memory, state |-> u.state,
                adaptation_log |->
                  Append(alog, [timestamp |-> t, action_id |-> action_id,
                                outcome |-> outcome, outcome_text |-> outcome_text])]

\* ----------------------------------------------------------------- storage
\* json null, and the string datetime.isoformat() gives for time t
JsonNull == [null |-> TRUE]
isoformat(t) == [null |-> FALSE, iso |-> t]

\* datetime.fromisoformat
fromisoformat(x) == x.iso

\* list(s) of a set s: its elements in some order
RECURSIVE ListOf(_)
ListOf(S) ==
  IF S = {} THEN <<>>
  ELSE LET x == CHOOSE y \in S : TRUE IN <<x>> \o ListOf(S \ {x})

\* MaternalBrainState.to_dict
state_to_dict(st) ==
  [nutrition |-> st.nutrition,
   energy_level |-> st.energy_level, hydration_level |-> st.hydration_level,
   sleep_quality |-> st.sleep_quality, stress_level |-> st.stress_level,
   pregnancy_stage |-> st.pregnancy_stage, breastfeeding |-> st.breastfeeding,
   symptoms |-> ListOf(st.symptoms),
   confidence_in_state |-> st.confidence_in_state,
   last_action |-> st.last_action,
   last_action_date |-> IF st.last_action_date # NoDate
                        THEN isoformat(st.last_action_date) ELSE JsonNull,
   update_count |-> st.update_count]

\* MaternalBrainState.from_dict
state_from_dict(data) ==
  [nutrition |-> data.nutrition,
   confidence_in_state |-> data.confidence_in_state,
   energy_level |-> data.energy_level, hydration_level |-> data.hydration_level,
   sleep_quality |-> data.sleep_quality, stress_level |-> data.stress_level,
   pregnancy_stage |-> data.pregnancy_stage, breastfeeding |-> data.breastfeeding,
   symptoms |-> Range(data.symptoms),
   last_action |-> data.last_action,
   last_action_date |-> IF data.last_action_date # JsonNull
                        THEN fromisoformat(data.last_action_date) ELSE NoDate,
   update_count |-> data.update_count]

\* Action.to_dict
Action_to_dict(a) ==
  [a EXCEPT !.timestamp = isoformat(a.timestamp),
            !.outcome_recorded_at = IF a.outcome_recorded_at # NoDate
                                    THEN isoformat(a.outcome_recorded_at) ELSE JsonNull]

\* Action.from_dict
Action_from_dict(data) ==
  [data EXCEPT !.timestamp = fromisoformat(data.timestamp),
               !.outcome_recorded_at = IF data.outcome_recorded_at # JsonNull
                                       THEN fromisoformat(data.outcome_recorded_at)
                                       ELSE NoDate]

\* Memory.to_dict
memory_to_dict(mem) ==
  [actions |-> [i \in 1..Len(mem.actions) |-> Action_to_dict(mem.actions[i])],
   failed_suggestions |-> mem.failed_suggestions,
   successful_suggestions |-> mem.successful_suggestions,
   dislikes |-> ListOf(mem.dislikes), allergies |-> ListOf(mem.allergies),
   contraindications |-> ListOf(mem.contraindications)]

\* Memory.from_dict
memory_from_dict(data) ==
  [actions |-> [i \in 1..Len(data.actions) |-> Action_from_dict(data.actions[i])],
   failed_suggestions |-> data.failed_suggestions,
   successful_suggestions |-> data.successful_suggestions,
   dislikes |-> Range(data.dislikes), allergies |-> Range(data.allergies),
   contraindications |-> Range(data.contraindications)]

\* what storage holds for the user: the blobs table of the encrypted database
\* and the two files of the plain-JSON fallback
NoFile == [exists |-> FALSE]
NoStore == [db |-> NoFile, state_json |-> NoFile, memory_json |-> NoFile]

\* a file that holds json text, and one left with part of a json text
JsonFile(data) == [exists |-> TRUE, complete |-> TRUE, data |-> data]
PartFile == [exists |-> TRUE, complete |-> FALSE]

\* LocalEncryptedSQLite.save: both blobs replaced in one committed transaction
save(sto, st, mem) ==
  [sto EXCEPT !.db = [exists |-> TRUE, state |-> state_to_dict(st),
                      memory |-> memory_to_dict(mem)]]

\* the places where a save can fail: nowhere; in the encrypted store (the
\* fallback then succeeds); in the fallback while state.json is written; in the
\* fallback when memory.json is opened; in the fallback while memory.json is written
Failures == {"none", "db", "state_json", "memory_json_open", "memory_json"}

\* storage.save_user_state with a failure at the given place: [raised, store].
\* A failed transaction of the encrypted store is rolled back.
save_user_state(sto, st, mem, failure) ==
  IF failure = "none" THEN [raised |-> FALSE, store |-> save(sto, st, mem)]
  ELSE IF failure = "db"
  THEN [raised |-> FALSE,
        store |-> [sto EXCEPT !.state_json = JsonFile(state_to_dict(st)),
                              !.memory_json = JsonFile(memory_to_dict(mem))]]
  ELSE IF failure = "state_json"
  THEN [raised |-> TRUE, store |-> [sto EXCEPT !.state_json = PartFile]]
  ELSE IF failure = "memory_json_open"
  THEN [raised |-> TRUE, store |-> [sto EXCEPT !.state_json = JsonFile(state_to_dict(st))]]
  ELSE [raised |-> TRUE,
        store |-> [sto EXCEPT !.state_json = JsonFile(state_to_dict(st)),
                              !.memory_json = PartFile]]

\* what a load returns when it returns None
NotLoaded == [found |-> FALSE, state |-> NewState, memory |-> NewMemory]

\* LocalEncryptedSQLite.load
load(sto) ==
  IF ~sto.db.exists THEN NotLoaded
  ELSE [found |-> TRUE, state |-> state_from_dict(sto.db.state),
        memory |-> memory_from_dict(sto.db.memory)]

\* storage.load_user_state; db_raises: the encrypted store raises an exception
load_user_state(sto, db_raises) ==
  IF ~db_raises THEN load(sto)
  ELSE IF ~sto.state_json.exists \/ ~sto.memory_json.exists THEN NotLoaded
  ELSE IF ~sto.state_json.complete \/ ~sto.memory_json.complete THEN NotLoaded
  ELSE [found |-> TRUE, state |-> state_from_dict(sto.state_json.data),
        memory |-> memory_from_dict(sto.memory_json.data)]

\* ------------------------------------------------------------- Nutrimama
\* Nutrimama._update_state_from_input
RECURSIVE ReportAll(_, _, _)
ReportAll(st, syms, i) ==
  IF i > Len(syms) THEN st ELSE ReportAll(report_symptom(st, syms[i]), syms, i + 1)

_update_state_from_input(st, parsed) ==
  LET s1 == ReportAll(st, parsed.symptoms, 1) IN
  IF parsed.sentiment = "negative"
  THEN [s1 EXCEPT !.energy_level = Max2(0, s1.energy_level - 100)]
  ELSE IF parsed.sentiment = "positive"
  THEN [s1 EXCEPT !.energy_level = Min2(1000, s1.energy_level + 100)]
  ELSE s1

\* Nutrimama._process_feedback: [memory, store] after it; feedback is the dict
\* that NLPParser.get_action_history_intent returns (keys action, outcome, when)
\* or None; a recorded outcome is saved at once, a failing save is swallowed
_process_feedback(mem, st, sto, feedback, failure, t) ==
  IF feedback = <<>> THEN [memory |-> mem, store |-> sto]
  ELSE LET action_id == DictGet(feedback, "action_id", None)
           outcome == DictGet(feedback, "outcome", None)
       IN IF action_id # None /\ outcome # None
          THEN LET r == record_outcome(mem, action_id, outcome,
                                       DictGet(feedback, "text", None), t)
               IN [memory |-> r.memory,
                   store |-> IF r.ok THEN save_user_state(sto, st, r.memory, failure).store
                             ELSE sto]
          ELSE [memory |-> mem, store |-> sto]

\* Nutrimama._update_state_from_models: every registered predictor's signal is
\* damped into the state; predictions maps a nutrient to <<prediction, confidence>>
RECURSIVE SignalAll(_, _, _)
SignalAll(st, predictions, i) ==
  IF i > Len(NutrientOrder) THEN st
  ELSE SignalAll(apply_ml_signal(st, NutrientOrder[i], predictions[NutrientOrder[i]][1],
                                 predictions[NutrientOrder[i]][2]),
                 predictions, i + 1)

_update_state_from_models(st, predictions) == SignalAll(st, predictions, 1)

\* the action text process_user_message logs:
\* details.get("food") or details.get("suggestion") or str(details)
ActionText(action_type, details) ==
  IF details.food # None THEN details.food
  ELSE IF action_type = "suggest_rest" THEN details.text
  ELSE CASE action_type = "alert_medical" -> "{'alert': ...}"
         [] action_type = "observe" -> "{'reason': 'No urgent action needed'}"
         [] action_type = "suggest_water" -> "{'glasses': 3, 'timing': 'throughout the day'}"
         [] OTHER -> "{'question': ...}"

\* =================================================================== state
VARIABLES
  now,             \* datetime.utcnow(), in hours
  state,           \* the MaternalBrainState
  memory,          \* the Memory
  safety,          \* the SafetyChecker
  decisions_log,   \* ReasoningEngine.decisions_log
  adaptation_log,  \* AdaptationEngine.adaptation_log
  store,           \* what storage holds for the user
  ret,             \* the last call and what it returned
  hist             \* history: what the caller has done so far

vars == <<now, state, memory, safety, decisions_log, adaptation_log, store, ret, hist>>

\* negMarked: the action texts record_outcome has marked negative; boundaries: the
\* strings given to add_contraindication and add_allergy; cycles: the time and the
\* decision of every process_user_message cycle; feedbacks: apply_user_feedback
\* calls; saves: the state and memory given together to a direct save_user_state
NewHist ==
  [negMarked |-> {}, boundaries |-> {}, cycles |-> <<>>, feedbacks |-> 0, saves |-> {}]

\* the objects Nutrimama.__init__ builds when nothing is persisted, for a user
\* whose MaternalBrainState is constructed with the given stage and breastfeeding flag
InitWith(stage, bf) ==
  /\ now = 0
  /\ state = [NewState EXCEPT !.pregnancy_stage = stage, !.breastfeeding = bf]
  /\ memory = NewMemory
  /\ safety = NewSafety
  /\ decisions_log = <<>>
  /\ adaptation_log = <<>>
  /\ store = NoStore
  /\ ret = [op |-> "init"]
  /\ hist = NewHist

\* Nutrimama.__init__: MaternalBrainState()
Init == InitWith(None, FALSE)

\* a MaternalBrainState constructed for a pregnancy stage and breastfeeding flag
Contexts == {<<None, FALSE>>, <<"planning", TRUE>>, <<"second_trimester", FALSE>>,
             <<"second_trimester", TRUE>>}
InitContext == \E c \in Contexts : InitWith(c[1], c[2])

\* ----------------------------------------------------------------- actions
\* time passes
Tick(d, limit) ==
  /\ now + d <= limit
  /\ now' = now + d
  /\ ret' = [op |-> "tick"]
  /\ UNCHANGED <<state, memory, safety, decisions_log, adaptation_log, store, hist>>

ApplyMlSignal(n, p, c) ==
  /\ state.update_count < MaxUpdates
  /\ state' = apply_ml_signal(state, n, p, c)
  /\ ret' = [op |-> "apply_ml_signal", nutrient |-> n, ml_prediction |-> p,
             model_confidence |-> c]
  /\ UNCHANGED <<now, memory, safety, decisions_log, adaptation_log, store, hist>>

ApplyUserFeedback(n, direction) ==
  /\ hist.feedbacks < MaxFeedbacks
  /\ state' = apply_user_feedback(state, n, direction)
  /\ ret' = [op |-> "apply_user_feedback", nutrient |-> n, direction |-> direction]
  /\ hist' = [hist EXCEPT !.feedbacks = hist.feedbacks + 1]
  /\ UNCHANGED <<now, memory, safety, decisions_log, adaptation_log, store>>

ReportSymptom(s) ==
  /\ state' = report_symptom(state, s)
  /\ ret' = [op |-> "report_symptom", symptom |-> s]
  /\ UNCHANGED <<now, memory, safety, decisions_log, adaptation_log, store, hist>>

ClearSymptoms ==
  /\ state' = clear_symptoms(state)
  /\ ret' = [op |-> "clear_symptoms"]
  /\ UNCHANGED <<now, memory, safety, decisions_log, adaptation_log, store, hist>>

\* the caller assigns the physical levels (as main.py does for energy_level)
SetPhysical(energy, hydration, sleep) ==
  /\ state' = [state EXCEPT !.energy_level = energy, !.hydration_level = hydration,
                            !.sleep_quality = sleep]
  /\ ret' = [op |-> "set_physical"]
  /\ UNCHANGED <<now, memory, safety, decisions_log, adaptation_log, store, hist>>

\* the caller records that it acted now: state.last_action_date = utcnow()
MarkLastAction(kind) ==
  /\ state' = [state EXCEPT !.last_action = kind, !.last_action_date = now]
  /\ ret' = [op |-> "mark_last_action"]
  /\ UNCHANGED <<now, memory, safety, decisions_log, adaptation_log, store, hist>>

LogAction(action_type, action_text, nutrients_targeted) ==
  /\ Len(memory.actions) < MaxActions
  /\ memory' = log_action(memory, action_type, action_text, "reason", nutrients_targeted, now)
  /\ ret' = [op |-> "log_action", action_id |-> ActionId(memory, now)]
  /\ UNCHANGED <<now, state, safety, decisions_log, adaptation_log, store, hist>>

\* the ids a caller can pass: those log_action returned, and one it never returned
KnownIds == {memory.actions[i].action_id : i \in 1..Len(memory.actions)}
UnknownId == <<MaxActions + 7, 0>>

CountsBounded(mem) ==
  /\ \A i \in 1..Len(mem.successful_suggestions) : mem.successful_suggestions[i][2] <= MaxCount
  /\ \A i \in 1..Len(mem.failed_suggestions) : mem.failed_suggestions[i][2] <= MaxCount

RecordOutcome(action_id, outcome, outcome_text) ==
  LET r == record_outcome(memory, action_id, outcome, outcome_text, now)
      i == FindAction(memory, action_id)
  IN /\ CountsBounded(r.memory)
     /\ memory' = r.memory
     /\ ret' = [op |-> "record_outcome", action_id |-> action_id, outcome |-> outcome,
                outcome_text |-> outcome_text, ok |-> r.ok]
     /\ hist' = IF i # 0 /\ outcome = "negative"
                THEN [hist EXCEPT !.negMarked = hist.negMarked \cup {memory.actions[i].action_text}]
                ELSE hist
     /\ UNCHANGED <<now, state, safety, decisions_log, adaptation_log, store>>

AddContraindication(suggestion) ==
  /\ memory' = add_contraindication(memory, suggestion)
  /\ ret' = [op |-> "add_contraindication", suggestion |-> suggestion]
  /\ hist' = [hist EXCEPT !.boundaries = hist.boundaries \cup {suggestion}]
  /\ UNCHANGED <<now, state, safety, decisions_log, adaptation_log, store>>

AddAllergy(allergen) ==
  /\ memory' = add_allergy(memory, allergen)
  /\ ret' = [op |-> "add_allergy", suggestion |-> allergen]
  /\ hist' = [hist EXCEPT !.boundaries = hist.boundaries \cup {allergen}]
  /\ UNCHANGED <<now, state, safety, decisions_log, adaptation_log, store>>

CheckFoodSafety(food, stage, bf) ==
  LET c == check_food_safety(safety, food, stage, bf) IN
  /\ Len(c.safety.violations) <= MaxAlerts
  /\ safety' = c.safety
  /\ ret' = [op |-> "check_food_safety", food |-> food, pregnancy_stage |-> stage,
             breastfeeding |-> bf, safe |-> c.safe, reason |-> c.reason]
  /\ UNCHANGED <<now, state, memory, decisions_log, adaptation_log, store, hist>>

CheckCriticalSymptom(symptom) ==
  LET c == check_critical_symptom(safety, symptom) IN
  /\ Len(c.safety.alerts) <= MaxAlerts
  /\ safety' = c.safety
  /\ ret' = [op |-> "check_critical_symptom", symptom |-> symptom, safe |-> c.safe,
             msg |-> c.msg]
  /\ UNCHANGED <<now, state, memory, decisions_log, adaptation_log, store, hist>>

\* SafetyChecker.clear_violations
ClearViolations ==
  /\ safety' = clear_violations(safety)
  /\ ret' = [op |-> "clear_violations"]
  /\ UNCHANGED <<now, state, memory, decisions_log, adaptation_log, store, hist>>

\* SafetyChecker.clear_alerts
ClearAlerts ==
  /\ safety' = clear_alerts(safety)
  /\ ret' = [op |-> "clear_alerts"]
  /\ UNCHANGED <<now, state, memory, decisions_log, adaptation_log, store, hist>>

\* decide marking the action it returns as the state's last action
DecideMarksLastAction ==
  \E ord \in Orders(state.symptoms) :
  \E r \in {decide(state, memory, safety, decisions_log, now, ord)} :
    /\ Len(r.safety.alerts) <= MaxAlerts
    /\ Len(r.safety.violations) <= MaxAlerts
    /\ Len(r.decisions_log) <= MaxDecisions
    /\ safety' = r.safety
    /\ decisions_log' = r.decisions_log
    /\ state' = IF r.raised THEN state
                ELSE [state EXCEPT !.last_action = r.action_type, !.last_action_date = now]
    /\ ret' = [op |-> "decide", raised |-> r.raised, action_type |-> r.action_type,
               details |-> r.details, at |-> now]
    /\ UNCHANGED <<now, memory, adaptation_log, store, hist>>

\* a direct call of ReasoningEngine.decide(state, memory, safety)
Decide ==
  \E ord \in Orders(state.symptoms) :
  \E r \in {decide(state, memory, safety, decisions_log, now, ord)} :
    /\ Len(r.safety.alerts) <= MaxAlerts
    /\ Len(r.safety.violations) <= MaxAlerts
    /\ Len(r.decisions_log) <= MaxDecisions
    /\ safety' = r.safety
    /\ decisions_log' = r.decisions_log
    /\ ret' = [op |-> "decide", raised |-> r.raised, action_type |-> r.action_type,
               details |-> r.details, at |-> now]
    /\ UNCHANGED <<now, state, memory, adaptation_log, store, hist>>

LearnFromOutcome(action_id, outcome, outcome_text, with_state) ==
  LET r == learn_from_outcome(memory, state, adaptation_log, action_id, outcome,
                              outcome_text, with_state, now)
      i == FindAction(memory, action_id)
  IN /\ CountsBounded(r.memory)
     /\ Len(r.adaptation_log) <= MaxAdaptations
     /\ memory' = r.memory
     /\ state' = r.state
     /\ adaptation_log' = r.adaptation_log
     /\ ret' = [op |-> "learn_from_outcome", action_id |-> action_id, outcome |-> outcome,
                outcome_text |-> outcome_text, with_state |-> with_state,
                ok |-> r.ok, raised |-> r.raised]
     /\ hist' = IF i # 0 /\ outcome = "negative"
                THEN [hist EXCEPT !.negMarked = hist.negMarked \cup {memory.actions[i].action_text}]
                ELSE hist
     /\ UNCHANGED <<now, safety, decisions_log, store>>

\* a direct call of storage.save_user_state(user_id, state, memory)
SaveUserState(failure) ==
  LET r == save_user_state(store, state, memory, failure) IN
  /\ Cardinality(hist.saves \cup {[state |-> state, memory |-> memory]}) <= MaxSaves
  /\ store' = r.store
  /\ ret' = [op |-> "save_user_state", failure |-> failure, raised |-> r.raised]
  /\ hist' = [hist EXCEPT !.saves = hist.saves \cup {[state |-> state, memory |-> memory]}]
  /\ UNCHANGED <<now, state, memory, safety, decisions_log, adaptation_log>>

\* a direct call of storage.load_user_state(user_id)
LoadUserState(db_raises) ==
  LET r == load_user_state(store, db_raises) IN
  /\ ret' = [op |-> "load_user_state", db_raises |-> db_raises, found |-> r.found,
             state |-> r.state, memory |-> r.memory]
  /\ UNCHANGED <<now, state, memory, safety, decisions_log, adaptation_log, store, hist>>

\* a direct call of ReasoningEngine._find_pressing_nutrient(state)
FindPressingNutrient ==
  /\ ret.op # "_find_pressing_nutrient"
  /\ ret' = [op |-> "_find_pressing_nutrient", result |-> _find_pressing_nutrient(state)]
  /\ UNCHANGED <<now, state, memory, safety, decisions_log, adaptation_log, store, hist>>

\* action_details.get("nutrients_targeted", []): no details dict that decide
\* builds has this key
NutrientsTargetedOf(details) == <<>>

\* process_user_message without the try/except around the save: an exception
\* of save_user_state leaves the cycle before the last action is set
ProcessUserMessageSaveUnguarded(parsed, feedback, predictions, failure) ==
  /\ Len(hist.cycles) < MaxCycles
  /\ \E s1 \in {_update_state_from_input(state, parsed)} :
     \E f \in {_process_feedback(memory, s1, store, feedback, failure, now)} :
     \E s2 \in {_update_state_from_models(s1, predictions)} :
     \E ord \in Orders(s2.symptoms) :
     \E r \in {decide(s2, f.memory, clear_alerts(clear_violations(safety)),
                      decisions_log, now, ord)} :
     \E m2 \in {log_action(f.memory, r.action_type, ActionText(r.action_type, r.details),
                           r.action_type, NutrientsTargetedOf(r.details), now)} :
     \E sv \in {save_user_state(f.store, s2, m2, failure)} :
       /\ IF r.raised
          THEN /\ memory' = f.memory
               /\ state' = s2
               /\ store' = f.store
               /\ UNCHANGED hist
          ELSE /\ memory' = m2
               /\ store' = sv.store
               /\ state' = IF sv.raised THEN s2
                           ELSE [s2 EXCEPT !.last_action = r.action_type,
                                           !.last_action_date = now]
               /\ hist' = [hist EXCEPT !.cycles =
                             Append(hist.cycles, [at |-> now, action_type |-> r.action_type,
                                                  alerts |-> Len(r.safety.alerts)])]
       /\ safety' = r.safety
       /\ decisions_log' = r.decisions_log
       /\ ret' = [op |-> "process_user_message", raised |-> r.raised \/ sv.raised,
                  action_type |-> r.action_type, details |-> r.details, at |-> now,
                  feedback |-> feedback, failure |-> failure]
       /\ UNCHANGED <<now, adaptation_log>>

\* Nutrimama.process_user_message: one whole cycle.  parsed and feedback are what
\* the NLP parser extracts from the message, predictions what the predictors return
ProcessUserMessage(parsed, feedback, predictions, failure) ==
  /\ Len(hist.cycles) < MaxCycles
  /\ \E s1 \in {_update_state_from_input(state, parsed)} :
     \E f \in {_process_feedback(memory, s1, store, feedback, failure, now)} :
     \E s2 \in {_update_state_from_models(s1, predictions)} :
     \E ord \in Orders(s2.symptoms) :
     \E r \in {decide(s2, f.memory, clear_alerts(clear_violations(safety)),
                      decisions_log, now, ord)} :
     \E m2 \in {log_action(f.memory, r.action_type, ActionText(r.action_type, r.details),
                           r.action_type, NutrientsTargetedOf(r.details), now)} :
       /\ IF r.raised
          THEN /\ memory' = f.memory
               /\ state' = s2
               /\ store' = f.store
               /\ UNCHANGED hist
          ELSE /\ memory' = m2
               /\ store' = save_user_state(f.store, s2, m2, failure).store
               /\ state' = [s2 EXCEPT !.last_action = r.action_type,
                                      !.last_action_date = now]
               /\ hist' = [hist EXCEPT !.cycles =
                             Append(hist.cycles, [at |-> now, action_type |-> r.action_type,
                                                  alerts |-> Len(r.safety.alerts)])]
       /\ safety' = r.safety
       /\ decisions_log' = r.decisions_log
       /\ ret' = [op |-> "process_user_message", raised |-> r.raised,
                  action_type |-> r.action_type, details |-> r.details, at |-> now,
                  feedback |-> feedback, failure |-> failure]
       /\ UNCHANGED <<now, adaptation_log>>

\* ---------------------------------------------------------- specifications
\* Memory and the food suggestions of decide
Next ==
  \/ Tick(73, MaxTime)
  \/ \E n \in {"iron", "folic"} : state.update_count + 1 < MaxUpdates /\ ApplyMlSignal(n, 0, 1000)
  \/ LogAction("suggest_food", "spinach", <<"iron">>)
  \/ \E id \in KnownIds, o \in {"positive", "negative"} : RecordOutcome(id, o, None)
  \/ AddContraindication("Spinach")
  \/ AddAllergy("LENTILS")
  \/ Decide

Spec == Init /\ [][Next]_vars

\* The order of the candidate foods of decide
NextOrder ==
  \/ Tick(73, MaxTime)
  \/ state.update_count + 1 < MaxUpdates /\ ApplyMlSignal("iron", 0, 1000)
  \/ \E text \in {"lentils", "eggs"} : LogAction("suggest_food", text, <<"iron">>)
  \/ \E id \in KnownIds, o \in {"positive", "negative"} : RecordOutcome(id, o, None)
  \/ AddContraindication("Spinach")
  \/ Decide

SpecOrder == Init /\ [][NextOrder]_vars

\* The indices of Memory under every kind of call
NextMemory ==
  \/ LogAction("suggest_food", "spinach", <<"iron">>)
  \/ \E id \in KnownIds \cup {UnknownId},
        o \in {"positive", "negative", "neutral", "skipped"} : RecordOutcome(id, o, None)
  \/ AddContraindication("Spinach")
  \/ AddAllergy("LENTILS")
  \/ Decide

SpecMemory == Init /\ [][NextMemory]_vars

\* Direct calls of the symptom check
NextSymptomCheck ==
  \/ \E s \in {"Severe_Bleeding", "seizures", "Chest_Pain", "shortness_of_breath",
                "headache", "nausea"} : CheckCriticalSymptom(s)
  \/ CheckFoodSafety("Raw_Milk", "first_trimester", FALSE)
  \/ ClearViolations
  \/ ClearAlerts

SpecSymptomCheck == Init /\ [][NextSymptomCheck]_vars

\* The fallbacks of decide: the nutrient's CHECK_IN and the lifestyle step
PhysicalLevels == {<<350, 350, 450>>, <<350, 400, 450>>, <<400, 350, 450>>,
                   <<350, 350, 500>>, <<400, 400, 500>>}

NextFallback ==
  \/ state.update_count + 1 < MaxUpdates /\ ApplyMlSignal("iron", 0, 1000)
  \/ \E f \in Range(FoodsForNutrient("iron")) \ {"spinach"} : AddContraindication(f)
  \/ Len(memory.actions) + 1 < MaxActions /\ LogAction("suggest_food", "spinach", <<"iron">>)
  \/ \E p \in PhysicalLevels : SetPhysical(p[1], p[2], p[3])
  \/ MarkLastAction("check_in")
  \/ Decide

SpecFallback == Init /\ [][NextFallback]_vars

\* decide on the reported symptoms
NextSymptoms ==
  \/ \E s \in {"Severe_Bleeding", "seizures", "Chest_Pain"} : ReportSymptom(s)
  \/ ClearSymptoms
  \/ MarkLastAction("check_in")
  \/ ClearAlerts
  \/ Decide

SpecSymptoms == Init /\ [][NextSymptoms]_vars

\* Saving and loading
NextStore ==
  \/ state.update_count + 1 < MaxUpdates /\ ApplyMlSignal("iron", 0, 1000)
  \/ Len(memory.actions) + 1 < MaxActions /\ LogAction("suggest_food", "spinach", <<"iron">>)
  \/ \E failure \in Failures : SaveUserState(failure)
  \/ \E db_raises \in BOOLEAN : LoadUserState(db_raises)

SpecStore == Init /\ [][NextStore]_vars

\* The alert paths and the rate limit of decide
NextAlert ==
  \/ \E d \in {20, 21} : Tick(d, MaxShortTime)
  \/ ApplyMlSignal("iron", 0, 1000)
  \/ SetPhysical(200, 500, 200)
  \/ \E s \in {"Severe_Bleeding", "Chest_Pain"} : ReportSymptom(s)
  \/ ClearSymptoms
  \/ MarkLastAction("check_in")
  \/ ClearAlerts
  \/ Decide

SpecAlert == Init /\ [][NextAlert]_vars

\* Food safety
NextSafety ==
  \/ \E n \in {"iron", "protein"} : ApplyMlSignal(n, 0, 1000)
  \/ \E f \in {"Raw_Milk", "alcohol", "sage", "spinach"},
        stage \in {None, "planning", "first_trimester"}, bf \in BOOLEAN :
        CheckFoodSafety(f, stage, bf)
  \/ ClearViolations
  \/ Decide

SpecSafety == InitContext /\ [][NextSafety]_vars

\* The belief updates
NextBelief ==
  \/ \E s \in {<<0, 1000>>, <<1300, 1300>>, <<0 - 200, 0 - 200>>} :
        state.update_count + 1 < MaxUpdates /\ ApplyMlSignal("iron", s[1], s[2])
  \/ \E direction \in {"increase", "decrease", "stable"} : ApplyUserFeedback("zinc", direction)
  \/ Len(memory.actions) + 1 < MaxActions /\ LogAction("suggest_food", "spinach", <<"iron">>)
  \/ \E id \in KnownIds \cup {UnknownId},
        o \in {"positive", "negative", "neutral", "skipped"},
        ws \in BOOLEAN : LearnFromOutcome(id, o, None, ws)

SpecBelief == Init /\ [][NextBelief]_vars

\* User feedback on one nutrient, from the beliefs and confidences that earlier
\* signals and feedback leave around the clamps
FeedbackBeliefs == {0, 28, 500, 970, 1000}
FeedbackConfidences == {500, 950}

InitFeedback ==
  /\ now = 0
  /\ \E b \in FeedbackBeliefs, c \in FeedbackConfidences :
       state = [NewState EXCEPT !.nutrition["protein"] = b,
                                !.confidence_in_state["protein"] = c]
  /\ memory = NewMemory
  /\ safety = NewSafety
  /\ decisions_log = <<>>
  /\ adaptation_log = <<>>
  /\ store = NoStore
  /\ ret = [op |-> "init"]
  /\ hist = NewHist

NextFeedback ==
  \/ state.update_count + 1 < MaxUpdates /\ ApplyMlSignal("protein", 1300, 1300)
  \/ \E direction \in {"increase", "decrease", "stable"} :
        ApplyUserFeedback("protein", direction)

SpecFeedback == InitFeedback /\ [][NextFeedback]_vars

\* decide on a state restored from a persisted record whose confidence_in_state
\* lacks entries
RestoredBeliefs == {150, 199, 200, 500}
RestoredConfidences == {500, 900}
DroppedEntries == {{}, {"iron"}, {"iron", "protein"}}

PersistedStates ==
  {[state_to_dict(NewState) EXCEPT
      !.nutrition = [@ EXCEPT !["iron"] = b],
      !.confidence_in_state = [n \in Nutrients \ d |-> c]] :
     b \in RestoredBeliefs, c \in RestoredConfidences, d \in DroppedEntries}

\* Nutrimama.__init__ with a persisted record: MaternalBrainState.from_dict
InitRestore ==
  /\ now = 0
  /\ \E data \in PersistedStates : state = state_from_dict(data)
  /\ memory = NewMemory
  /\ safety = NewSafety
  /\ decisions_log = <<>>
  /\ adaptation_log = <<>>
  /\ store = NoStore
  /\ ret = [op |-> "init"]
  /\ hist = NewHist

NextRestore ==
  \/ \E d \in {20, 21} : Tick(d, MaxShortTime)
  \/ MarkLastAction("check_in")
  \/ ClearAlerts
  \/ Decide

SpecRestore == InitRestore /\ [][NextRestore]_vars

\* Calls that name a nutrient the belief state does not have
NextUnknown ==
  \/ \E n \in {"iron", "zinc"} :
        state.update_count + 1 < MaxUpdates /\ ApplyMlSignal(n, 0, 1000)
  \/ \E direction \in {"increase", "decrease"} : ApplyUserFeedback("zinc", direction)
  \/ \E nutrients \in {<<"iron">>, <<"iron", "zinc">>} :
        LogAction("suggest_food", "spinach", nutrients)
  \/ \E id \in KnownIds, o \in {"positive", "negative"}, ws \in BOOLEAN :
        LearnFromOutcome(id, o, None, ws)

SpecUnknown == Init /\ [][NextUnknown]_vars

\* The pressing nutrient, on states whose beliefs and confidences are drawn from
\* the values around the thresholds
BeliefLevels == {100, 249, 250, 399, 400}
ConfidenceLevels == {700, 701}
Drawn == {"iron", "protein", "calcium"}

InitPressing ==
  /\ now = 0
  /\ \E b \in [Drawn -> BeliefLevels], c \in [Drawn -> ConfidenceLevels] :
       state = [NewState EXCEPT
                  !.nutrition = [n \in Nutrients |-> IF n \in Drawn THEN b[n] ELSE 500],
                  !.confidence_in_state =
                     [n \in Nutrients |-> IF n \in Drawn THEN c[n] ELSE 500]]
  /\ memory = NewMemory
  /\ safety = NewSafety
  /\ decisions_log = <<>>
  /\ adaptation_log = <<>>
  /\ store = NoStore
  /\ ret = [op |-> "init"]
  /\ hist = NewHist

NextPressing == FindPressingNutrient

SpecPressing == InitPressing /\ [][NextPressing]_vars

\* The cycles of process_user_message
Neutral == [n \in Nutrients |-> <<500, 500>>]

\* what NLPParser.parse and get_action_history_intent extract from three messages:
\* "hello", "I can't breathe" and "I tried spinach and felt bad"
Messages ==
  {[parsed |-> [symptoms |-> <<>>, sentiment |-> "neutral"], feedback |-> <<>>],
   [parsed |-> [symptoms |-> <<"shortness_of_breath">>, sentiment |-> "negative"],
    feedback |-> <<>>],
   [parsed |-> [symptoms |-> <<>>, sentiment |-> "negative"],
    feedback |-> <<<<"action", "spinach">>, <<"outcome", "negative">>, <<"when", None>>>>]}

NextCycle ==
  \/ \E d \in {20, 21} : Tick(d, MaxShortTime)
  \/ \E m \in Messages, iron \in {<<0, 1000>>, <<500, 500>>} :
        ProcessUserMessage(m.parsed, m.feedback, [Neutral EXCEPT !["iron"] = iron], "none")
  \/ ReportSymptom("Severe_Bleeding")

\* Cycles inside and outside the recency window
NextRecency ==
  \/ \E d \in {21, 73} : Tick(d, MaxTime)
  \/ \E iron \in {<<0, 1000>>, <<200, 1000>>} :
        ProcessUserMessage([symptoms |-> <<>>, sentiment |-> "neutral"], <<>>,
                           [Neutral EXCEPT !["iron"] = iron], "none")

SpecRecency == Init /\ [][NextRecency]_vars

SpecCycle == Init /\ [][NextCycle]_vars

\* decide with symptoms on record while signals, outcomes and time go by
NextCritical ==
  \/ Tick(21, MaxShortTime)
  \/ state.update_count + 1 < MaxUpdates /\ ApplyMlSignal("iron", 0, 1000)
  \/ Len(memory.actions) + 1 < MaxActions /\ LogAction("suggest_food", "spinach", <<"iron">>)
  \/ \E id \in KnownIds : LearnFromOutcome(id, "negative", None, TRUE)
  \/ \E s \in {"Severe_Bleeding", "Chest_Pain"} : ReportSymptom(s)
  \/ ClearSymptoms
  \/ MarkLastAction("check_in")
  \/ Decide

SpecCritical == Init /\ [][NextCritical]_vars

\* Outcomes learnt at the confidences that signals of the model leave
NextOutcome ==
  \/ \E c \in {0, 1000} :
        state.update_count + 1 < MaxUpdates /\ ApplyMlSignal("iron", 500, c)
  \/ Len(memory.actions) + 1 < MaxActions /\ LogAction("suggest_food", "spinach", <<"iron">>)
  \/ \E id \in KnownIds, o \in {"positive", "negative"}, ws \in BOOLEAN :
        LearnFromOutcome(id, o, None, ws)

SpecOutcome == Init /\ [][NextOutcome]_vars

\* Cycles whose save fails at each place, and a restart that loads what was saved
NextPersist ==
  \/ \E d \in {20, 21} : Tick(d, MaxShortTime)
  \/ \E iron \in {<<0, 1000>>, <<500, 500>>}, failure \in Failures :
        ProcessUserMessage([symptoms |-> <<>>, sentiment |-> "neutral"], <<>>,
                           [Neutral EXCEPT !["iron"] = iron], failure)
  \/ \E db_raises \in BOOLEAN : LoadUserState(db_raises)

SpecPersist == Init /\ [][NextPersist]_vars

\* ------------------------------------------------------------------ claims
\* decide has just returned SUGGEST_FOOD
SuggestedFood == ret.op = "decide" /\ ret.action_type = "suggest_food"

\* every logged action is older than the recency window
AllActionsOld ==
  \A i \in 1..Len(memory.actions) : now - memory.actions[i].timestamp > RECENT_WINDOW_HOURS

\* C1: once record_outcome has marked an action whose text is food f negative, no
\* later decide returns SUGGEST_FOOD with food f
C1_NeverSuggestsFailedFood ==
  SuggestedFood => ret.details.food \notin hist.negMarked

\* decide suggests another iron or folic food although spinach, the first food of
\* both lists, is neither a boundary nor recently suggested: it was marked negative
C1_Witness ==
  /\ SuggestedFood
  /\ "spinach" \in hist.negMarked
  /\ "spinach" \notin memory.contraindications
  /\ AllActionsOld
  /\ ret.details.food # "spinach"

\* the action that record_outcome(action_id, ...) of this step found, 0 for none
Recorded == IF ret'.op = "record_outcome" THEN FindAction(memory, ret'.action_id) ELSE 0

\* C5: record_outcome on an action whose outcome is already set returns false and
\* changes nothing in memory
C5_SecondOutcomeRejected ==
  [][(Recorded # 0 /\ memory.actions[Recorded].outcome # None)
       => (ret'.ok = FALSE /\ memory' = memory)]_vars

\* C6: the action log only grows at the end, a logged action keeps its id,
\* timestamp, kind, text and targeted nutrients, and its outcome fields, once set,
\* never change again
C6_AppendOnlyOutcomeOnce ==
  [][/\ Len(memory'.actions) >= Len(memory.actions)
     /\ \A i \in 1..Len(memory.actions) :
          LET a == memory.actions[i]
              b == memory'.actions[i]
          IN /\ b.action_id = a.action_id
             /\ b.timestamp = a.timestamp
             /\ b.action_type = a.action_type
             /\ b.action_text = a.action_text
             /\ b.nutrients_targeted = a.nutrients_targeted
             /\ a.outcome # None =>
                  /\ b.outcome = a.outcome
                  /\ b.outcome_text = a.outcome_text
                  /\ b.outcome_recorded_at = a.outcome_recorded_at]_vars

\* C8: decide never returns SUGGEST_FOOD with a food that is in the
\* contraindications or the allergies, in whatever letter case the food was given
\* to add_contraindication or add_allergy and whatever positive outcomes it has
C8_NeverSuggestsBoundaryFood ==
  SuggestedFood =>
    /\ ret.details.food \notin memory.contraindications \cup memory.allergies
    /\ \A f \in hist.boundaries : Lower(f) # ret.details.food

\* decide suggests a food while spinach, given as "Spinach", is contraindicated and
\* has a recorded positive outcome and no negative one
C8_Witness ==
  /\ SuggestedFood
  /\ "Spinach" \in hist.boundaries
  /\ DictGet(memory.successful_suggestions, "spinach", 0) > 0
  /\ "spinach" \notin hist.negMarked
  /\ AllActionsOld

\* the state-wide alert condition: a nutrient believed below 0.2 with confidence
\* above 0.8, or energy and sleep quality both below 0.3
AlertCondition ==
  \/ \E n \in Nutrients : state.nutrition[n] < 200 /\ state.confidence_in_state[n] > 800
  \/ state.energy_level < 300 /\ state.sleep_quality < 300

\* some reported symptom is in the critical set
CriticalSymptomReported == state.symptoms \cap CRITICAL_SYMPTOMS # {}

\* the last action is at most 20 hours old
WithinRateLimit ==
  state.last_action_date # NoDate /\ now - state.last_action_date <= RATE_LIMIT_HOURS

\* C2: with the last action at most 20 hours old and neither the alert condition
\* nor a critical symptom present, decide returns OBSERVE
C2_ObserveWithinRateLimit ==
  (ret.op = "decide" /\ WithinRateLimit /\ ~AlertCondition /\ ~CriticalSymptomReported)
    => ret.action_type = "observe"

\* C3: whenever the alert condition holds or a critical symptom is reported,
\* decide returns ALERT_MEDICAL, also when the last action is at most 20 hours old
C3_AlertsBypassRateLimit ==
  (ret.op = "decide" /\ (AlertCondition \/ CriticalSymptomReported))
    => ret.action_type = "alert_medical"

\* decide alerts on the state-wide condition alone, inside the rate limit and with
\* no alert left over from an earlier call
C3_Witness ==
  /\ ret.op = "decide"
  /\ ret.action_type = "alert_medical"
  /\ WithinRateLimit
  /\ AlertCondition
  /\ ~CriticalSymptomReported
  /\ Len(safety.alerts) = 1

\* the cycles of process_user_message that decided a routine action
RoutineCycles ==
  {i \in 1..Len(hist.cycles) : hist.cycles[i].action_type \notin {"alert_medical", "observe"}}

C7_BeliefsWithinUnitInterval ==
  \A n \in Nutrients :
    /\ 0 <= state.nutrition[n] /\ state.nutrition[n] <= 1000
    /\ 0 <= state.confidence_in_state[n] /\ state.confidence_in_state[n] <= 1000

\* check_food_safety must reject this food for this stage and breastfeeding flag
Unsafe(food, stage, bf) ==
  \/ stage # None /\ stage # "planning" /\ Lower(food) \in UNSAFE_FOODS_PREGNANCY
  \/ bf /\ Lower(food) \in UNSAFE_FOODS_BREASTFEEDING

\* C9: decide never returns SUGGEST_FOOD with a food that is unsafe for the
\* state's stage and breastfeeding flag, and check_food_safety rejects every unsafe
\* food and appends the rejection to the violations
C9_UnsafeFoodRejected ==
  [][/\ (ret'.op = "decide" /\ ret'.action_type = "suggest_food")
          => ~Unsafe(ret'.details.food, state'.pregnancy_stage, state'.breastfeeding)
     /\ (ret'.op = "check_food_safety"
            /\ Unsafe(ret'.food, ret'.pregnancy_stage, ret'.breastfeeding))
          => /\ ret'.safe = FALSE
             /\ Len(safety'.violations) = Len(safety.violations) + 1
             /\ safety'.violations[Len(safety'.violations)].food = ret'.food
             /\ SubSeq(safety'.violations, 1, Len(safety.violations)) = safety.violations
     /\ (ret'.op = "check_food_safety" /\ ret'.safe = FALSE)
          => Unsafe(ret'.food, ret'.pregnancy_stage, ret'.breastfeeding)]_vars

\* a food of the breastfeeding-unsafe set has been rejected for a breastfeeding
\* mother outside pregnancy, and the rejection is the last violation
C9_Witness ==
  /\ ret.op = "check_food_safety"
  /\ ret.safe = FALSE
  /\ ret.breastfeeding
  /\ ret.pregnancy_stage = None
  /\ safety.violations # <<>>
  /\ safety.violations[Len(safety.violations)].food = ret.food

\* the nutrients with confidence above 0.7
Eligible == {n \in Nutrients : state.confidence_in_state[n] > 700}

\* the eligible nutrients believed below 0.25, or else those in [0.25, 0.40)
Pool ==
  LET critical == {n \in Eligible : state.nutrition[n] < 250}
      low == {n \in Eligible : 250 <= state.nutrition[n] /\ state.nutrition[n] < 400}
  IN IF critical # {} THEN critical ELSE low

\* the position of a nutrient in the nutrition map
Position(n) == CHOOSE i \in 1..Len(NutrientOrder) : NutrientOrder[i] = n

\* C10: the pressing nutrient is the lowest believed nutrient of the pool, the
\* earlier one in the map's order among equals, and none when the pool is empty
C10_PressingNutrient ==
  ret.op = "_find_pressing_nutrient" =>
    IF Pool = {} THEN ret.result = None
    ELSE /\ ret.result \in Pool
         /\ \A m \in Pool \ {ret.result} :
              \/ state.nutrition[ret.result] < state.nutrition[m]
              \/ /\ state.nutrition[ret.result] = state.nutrition[m]
                 /\ Position(ret.result) < Position(m)

\* a tie between two critical nutrients with a third nutrient at confidence 0.7
\* left out, decided for the earlier nutrient
C10_Witness ==
  /\ ret.op = "_find_pressing_nutrient"
  /\ ret.result = "iron"
  /\ state.nutrition["iron"] = state.nutrition["calcium"]
  /\ state.nutrition["iron"] < 250
  /\ state.confidence_in_state["calcium"] > 700
  /\ state.confidence_in_state["protein"] = 700
  /\ state.nutrition["protein"] < state.nutrition["iron"]

\* the pressing nutrient of the state: the lowest believed nutrient of the pool,
\* the earlier one in the map's order among equals (None when the pool is empty)
Pressing ==
  IF Pool = {} THEN None
  ELSE CHOOSE n \in Pool :
         \A m \in Pool \ {n} :
           \/ state.nutrition[n] < state.nutrition[m]
           \/ state.nutrition[n] = state.nutrition[m] /\ Position(n) < Position(m)

\* C11: with no alert, outside the rate limit, a pressing nutrient n and an empty
\* memory, decide returns SUGGEST_FOOD for n with a food of n's static list; and
\* every SUGGEST_FOOD result names the pressing nutrient and a food of its list
C11_SuggestsFoodOfPressingNutrient ==
  /\ (/\ ret.op = "decide"
      /\ safety.alerts = <<>> /\ ~AlertCondition /\ ~CriticalSymptomReported
      /\ ~WithinRateLimit
      /\ Pressing # None
      /\ memory = NewMemory)
       => ret.action_type = "suggest_food"
  /\ SuggestedFood =>
       /\ Pressing # None
       /\ ret.details.nutrient = Pressing
       /\ ret.details.food \in Range(FoodsForNutrient(Pressing))

\* decide suggests an iron food on an empty memory
C11_Witness ==
  /\ SuggestedFood
  /\ memory = NewMemory
  /\ Pressing = "iron"
  /\ ret.details.food = "spinach"

\* the position of food f in the static list of the pressing nutrient
TablePosition(f) ==
  CHOOSE i \in 1..Len(FoodsForNutrient(Pressing)) : FoodsForNutrient(Pressing)[i] = f

\* the success count of food f
Successes(f) == DictGet(memory.successful_suggestions, f, 0)

\* food g comes before food f in the candidate order: a successful food before
\* an unsuccessful one, the higher success count first, table order otherwise
Before(g, f) ==
  \/ Successes(g) > Successes(f)
  \/ Successes(g) = 0 /\ Successes(f) = 0 /\ TablePosition(g) < TablePosition(f)

\* food f passes the three checks of step 5
Acceptable(f) ==
  /\ ~should_avoid_suggestion(memory, f)
  /\ ~was_recently_suggested(memory, f, now)
  /\ ~Unsafe(f, state.pregnancy_stage, state.breastfeeding)

C13_DecideDeterministic ==
  [][ret'.op = "decide" =>
       \A ord \in Orders(state.symptoms) :
         LET r == decide(state, memory, safety, decisions_log, now, ord)
         IN r.action_type = ret'.action_type /\ r.details = ret'.details]_vars

\* C14: on the copies that from_dict restores from to_dict, decide returns the same
\* action kind and details as on the originals
C14_RoundTripSameDecision ==
  [][ret'.op = "decide" =>
       LET restored_state == state_from_dict(state_to_dict(state))
           restored_memory == memory_from_dict(memory_to_dict(memory))
       IN \A ord \in Orders(restored_state.symptoms) :
            LET r == decide(restored_state, restored_memory, safety, decisions_log, now, ord)
            IN r.action_type = ret'.action_type /\ r.details = ret'.details]_vars

\* C20: a load that finds data returns a state and a memory that were given
\* together to one save, never the state of one save with the memory of another
C20_LoadSeesOneSave ==
  (ret.op = "load_user_state" /\ ret.found) =>
    \E p \in hist.saves :
      /\ ret.state = state_from_dict(state_to_dict(p.state))
      /\ ret.memory = memory_from_dict(memory_to_dict(p.memory))

\* The prediction of a machine-learning signal, clamped to [0, 1]
Clamped(p) == IF p < 0 THEN 0 ELSE IF p > 1000 THEN 1000 ELSE p

\* C15: a machine-learning signal (p, c) on a known nutrient n sets the belief
\* of n to 0.7 * b0 + 0.3 * clamp(p, 0, 1) and the confidence of n to
\* 0.5 * c0 + 0.5 * c, adds one to update_count, and leaves the belief and
\* the confidence of every other nutrient unchanged.
C15_MlSignalDampened ==
  [][(ret'.op = "apply_ml_signal" /\ ret'.nutrient \in Nutrients) =>
       LET n == ret'.nutrient
       IN /\ 10 * state'.nutrition[n] <= 7 * state.nutrition[n] + 3 * Clamped(ret'.ml_prediction)
          /\ 10 * state'.nutrition[n] + 10 > 7 * state.nutrition[n] + 3 * Clamped(ret'.ml_prediction)
          /\ 2 * state'.confidence_in_state[n]
                <= state.confidence_in_state[n] + ret'.model_confidence
          /\ 2 * state'.confidence_in_state[n] + 2
                > state.confidence_in_state[n] + ret'.model_confidence
          /\ state'.update_count = state.update_count + 1
          /\ \A m \in Nutrients \ {n} :
                /\ state'.nutrition[m] = state.nutrition[m]
                /\ state'.confidence_in_state[m] = state.confidence_in_state[m]]_vars

\* a second signal, with a prediction above 1, has been applied
C15_Witness ==
  /\ ret.op = "apply_ml_signal"
  /\ ret.ml_prediction > 1000
  /\ state.update_count = 2
  /\ state.nutrition["iron"] > 500

\* The step a piece of user feedback moves the belief by
FeedbackStep(direction) ==
  IF direction = "increase" THEN 50 ELSE IF direction = "decrease" THEN 0 - 50 ELSE 0

\* C16: user feedback on a known nutrient never lowers the confidence of that
\* nutrient: whatever the direction, the new confidence is min(1.0, old + 0.15),
\* and the belief moves by +0.05, -0.05 or 0 and is clamped to [0,1].
C16_FeedbackNeverLowersConfidence ==
  [][(ret'.op = "apply_user_feedback" /\ ret'.nutrient \in Nutrients) =>
       LET n == ret'.nutrient
           moved == state.nutrition[n] + FeedbackStep(ret'.direction)
       IN /\ state'.confidence_in_state[n] >= state.confidence_in_state[n]
          /\ state'.confidence_in_state[n] =
                (IF state.confidence_in_state[n] + 150 > 1000 THEN 1000
                 ELSE state.confidence_in_state[n] + 150)
          /\ state'.nutrition[n] = Clamped(moved)]_vars

\* the ids of the actions in memory
LoggedIds == {a.action_id : a \in Range(memory.actions)}

\* C17: learn_from_outcome with an action id that is not in memory returns
\* false and has no side effect: memory (the actions and every index), the
\* belief state and the adaptation audit trail are unchanged.
C17_UnknownIdLearnsNothing ==
  [][(ret'.op = "learn_from_outcome" /\ ret'.action_id \notin LoggedIds) =>
       /\ ~ret'.ok
       /\ ~ret'.raised
       /\ memory' = memory
       /\ state' = state
       /\ adaptation_log' = adaptation_log]_vars

\* an outcome for an unknown id has been refused while memory held an action
C17_Witness ==
  /\ ret.op = "learn_from_outcome"
  /\ ret.action_id \notin LoggedIds
  /\ ret.with_state
  /\ ~ret.ok
  /\ memory.actions # <<>>

\* the nutrients the action with this id targets
TargetsOf(id) ==
  UNION {Range(a.nutrients_targeted) : a \in {b \in Range(memory.actions) : b.action_id = id}}

\* C18: learn_from_outcome with outcome negative and a state supplied sets the
\* confidence of each nutrient the action targets to max(0.3, confidence - 0.1)
\* and leaves every belief unchanged; a neutral or unknown outcome changes no
\* belief and no confidence.
C18_NegativeLowersConfidenceToFloor ==
  [][(ret'.op = "learn_from_outcome" /\ ret'.action_id \in LoggedIds /\ ret'.with_state) =>
       /\ ret'.outcome = "negative" =>
             /\ state'.nutrition = state.nutrition
             /\ \A n \in Nutrients :
                   state'.confidence_in_state[n] =
                     IF n \in TargetsOf(ret'.action_id)
                     THEN (IF state.confidence_in_state[n] - 100 < 300 THEN 300
                           ELSE state.confidence_in_state[n] - 100)
                     ELSE state.confidence_in_state[n]
       /\ ret'.outcome \notin {"positive", "negative"} =>
             /\ state'.nutrition = state.nutrition
             /\ state'.confidence_in_state = state.confidence_in_state]_vars

\* a negative outcome has met the floor: the confidence of iron was below 0.4
\* and is now 0.3
C18_Witness ==
  /\ ret.op = "learn_from_outcome"
  /\ ret.outcome = "negative"
  /\ ret.with_state
  /\ ret.ok
  /\ state.update_count > 0
  /\ state.confidence_in_state["iron"] = 300

\* the values of ActionType
ActionTypes ==
  {"suggest_food", "suggest_water", "suggest_rest", "ask_question", "observe",
   "alert_medical", "check_in"}

\* C19: nothing in the decision core is fatal: decide returns an action for
\* every belief state, one where a nutrient has no confidence entry included;
\* it never ends in an uncaught error.
C19_DecideAlwaysReturnsAction ==
  ret.op = "decide" => (~ret.raised /\ ret.action_type \in ActionTypes)

\* the texts of the logged actions and of the keys of the indices
KnownTexts ==
  {a.action_text : a \in Range(memory.actions)}
    \cup DictKeys(memory.successful_suggestions) \cup DictKeys(memory.failed_suggestions)

\* the number of logged actions with this text and this outcome
OutcomeCount(text, outcome) ==
  Cardinality({i \in 1..Len(memory.actions) :
                 /\ memory.actions[i].action_text = text
                 /\ memory.actions[i].outcome = outcome})

\* C21: the derived indices can be rebuilt from the action log: the success
\* count of a text is the number of actions with that text whose outcome is
\* positive, its failure count the number whose outcome is negative, and
\* dislikes is the key set of the failure counts.
C21_IndicesRebuildable ==
  /\ \A t \in KnownTexts :
       /\ DictGet(memory.successful_suggestions, t, 0) = OutcomeCount(t, "positive")
       /\ DictGet(memory.failed_suggestions, t, 0) = OutcomeCount(t, "negative")
  /\ memory.dislikes = DictKeys(memory.failed_suggestions)

\* C22: dislikes and the failure counts change only in a record_outcome call
\* with outcome negative; contraindications and allergies change only in
\* add_contraindication and add_allergy, add_allergy adding to both; log_action
\* and record_outcome with any other outcome leave all four unchanged.
C22_IndicesChangeOnlyByTheirCalls ==
  [][/\ (memory'.dislikes # memory.dislikes
           \/ memory'.failed_suggestions # memory.failed_suggestions)
          => (ret'.op = "record_outcome" /\ ret'.outcome = "negative")
     /\ memory'.contraindications # memory.contraindications
          => ret'.op \in {"add_contraindication", "add_allergy"}
     /\ memory'.allergies # memory.allergies => ret'.op = "add_allergy"
     /\ ret'.op = "add_allergy"
          => /\ memory'.allergies = memory.allergies \cup {Lower(ret'.suggestion)}
             /\ memory'.contraindications
                  = memory.contraindications \cup {Lower(ret'.suggestion)}
     /\ (ret'.op = "log_action" \/ (ret'.op = "record_outcome" /\ ret'.outcome # "negative"))
          => /\ memory'.dislikes = memory.dislikes
             /\ memory'.failed_suggestions = memory.failed_suggestions
             /\ memory'.contraindications = memory.contraindications
             /\ memory'.allergies = memory.allergies]_vars

\* a neutral outcome has been recorded while dislikes, allergies and
\* contraindications held entries
C22_Witness ==
  /\ ret.op = "record_outcome"
  /\ ret.outcome = "neutral"
  /\ ret.ok
  /\ memory.dislikes # {}
  /\ memory.allergies # {}
  /\ "spinach" \in memory.contraindications

\* C23: check_critical_symptom returns (false, alert) and appends the alert for
\* a symptom of the critical set, returns (true, warning) and appends the
\* warning for a symptom of the warning set, and returns (true, null) without
\* touching alerts for any other symptom; the match ignores case and
\* violations never changes.
C23_SymptomCheckByClass ==
  [][ret'.op = "check_critical_symptom" =>
       /\ safety'.violations = safety.violations
       /\ Lower(ret'.symptom) \in CRITICAL_SYMPTOMS =>
            /\ ~ret'.safe
            /\ ret'.msg.level = "critical" /\ ret'.msg.symptom = ret'.symptom
            /\ safety'.alerts = Append(safety.alerts, ret'.msg)
       /\ Lower(ret'.symptom) \in WARNING_SYMPTOMS =>
            /\ ret'.safe
            /\ ret'.msg.level = "warning" /\ ret'.msg.symptom = ret'.symptom
            /\ safety'.alerts = Append(safety.alerts, ret'.msg)
       /\ Lower(ret'.symptom) \notin CRITICAL_SYMPTOMS \cup WARNING_SYMPTOMS =>
            /\ ret'.safe
            /\ ret'.msg = NoAlert
            /\ safety'.alerts = safety.alerts]_vars

\* a warning symptom typed in capitals has been checked after a critical one,
\* with a violation on record
C23_Witness ==
  /\ ret.op = "check_critical_symptom"
  /\ ret.symptom = "Chest_Pain"
  /\ ret.safe
  /\ Len(safety.alerts) = 2
  /\ safety.alerts[1].level = "critical"
  /\ safety.violations # <<>>

\* decide has taken neither the alert steps nor the rate limit
RoutineDecision ==
  /\ ret.op = "decide"
  /\ ~ret.raised
  /\ safety.alerts = <<>> /\ ~AlertCondition /\ ~CriticalSymptomReported
  /\ ~WithinRateLimit

\* every candidate food of the pressing nutrient is rejected
NoAcceptableFood ==
  Pressing # None /\ \A f \in Range(FoodsForNutrient(Pressing)) : ~Acceptable(f)

\* C24: when a pressing nutrient exists and every candidate food is rejected
\* (avoided, recently suggested or unsafe), decide returns CHECK_IN with the
\* question naming that nutrient and does not go on to the lifestyle fallback,
\* whatever the energy, sleep and hydration.
C24_CheckInWhenNoFoodSurvives ==
  (RoutineDecision /\ NoAcceptableFood) =>
     /\ ret.action_type = "check_in"
     /\ ret.details.nutrient = Pressing
     /\ ret.details.text = "question_nutrient"

\* the nutrient's CHECK_IN has been returned with low energy, poor sleep and low
\* hydration, one food rejected as recently suggested
C24_Witness ==
  /\ RoutineDecision
  /\ NoAcceptableFood
  /\ ret.action_type = "check_in"
  /\ state.energy_level < 400 /\ state.sleep_quality < 500 /\ state.hydration_level < 400
  /\ was_recently_suggested(memory, "spinach", now)
  /\ ~should_avoid_suggestion(memory, "spinach")

\* C25: with no alert, outside the rate limit and with no pressing nutrient,
\* decide returns SUGGEST_REST if energy < 0.4 and sleep quality < 0.5, else
\* SUGGEST_WATER if hydration < 0.4, else the generic CHECK_IN; SUGGEST_REST
\* wins when both conditions hold.
C25_LifestyleFallback ==
  (RoutineDecision /\ Pressing = None) =>
     ret.action_type =
       IF state.energy_level < 400 /\ state.sleep_quality < 500 THEN "suggest_rest"
       ELSE IF state.hydration_level < 400 THEN "suggest_water"
       ELSE "check_in"

\* SUGGEST_REST has been returned with the hydration low as well
C25_Witness ==
  /\ RoutineDecision
  /\ Pressing = None
  /\ ret.action_type = "suggest_rest"
  /\ state.hydration_level < 400

\* the texts was_recently_suggested is asked about
AskedTexts == Range(FoodsForNutrient("iron")) \cup {"Spinach", "meat"}

\* some logged action at most 3 days old has a text containing this one,
\* whatever the case
LoggedWithinWindow(text) ==
  \E i \in 1..Len(memory.actions) :
    /\ now - memory.actions[i].timestamp <= RECENT_WINDOW_HOURS
    /\ Contains(Lower(memory.actions[i].action_text), Lower(text))

\* C26: the same food is not suggested twice within the recency window:
\* was_recently_suggested(text) is true exactly when some logged action at most
\* 3 days old has a text containing text, whatever the case, so any two
\* SUGGEST_FOOD actions logged less than 3 days apart name different foods.
C26_NoRepeatWithinWindow ==
  /\ \A text \in AskedTexts :
       was_recently_suggested(memory, text, now) <=> LoggedWithinWindow(text)
  /\ \A i, j \in 1..Len(memory.actions) :
       (/\ i < j
        /\ memory.actions[i].action_type = "suggest_food"
        /\ memory.actions[j].action_type = "suggest_food"
        /\ memory.actions[j].timestamp - memory.actions[i].timestamp < RECENT_WINDOW_HOURS)
         => memory.actions[i].action_text # memory.actions[j].action_text

\* a food has been suggested, another one inside the window, and the first one
\* again once the window had passed
C26_Witness ==
  /\ Len(memory.actions) = 3
  /\ \A i \in 1..3 : memory.actions[i].action_type = "suggest_food"
  /\ memory.actions[1].action_text # memory.actions[2].action_text
  /\ memory.actions[3].action_text = memory.actions[1].action_text

\* C27: in every cycle of process_user_message violations and alerts are empty
\* when decide starts, so an alert of one cycle (a warning symptom's, say) never
\* decides a later cycle: a cycle answers ALERT_MEDICAL only on the alert
\* condition or a critical symptom of its own state, and the alerts it leaves
\* are the ones its own decide raised.
C27_CycleStartsWithoutAlerts ==
  (ret.op = "process_user_message" /\ ~ret.raised) =>
     /\ ret.action_type = "alert_medical" => (AlertCondition \/ CriticalSymptomReported)
     /\ \A i \in 1..Len(safety.alerts) :
          /\ safety.alerts[i].level = "state" => AlertCondition
          /\ safety.alerts[i].level \in {"critical", "warning"}
               => Lower(safety.alerts[i].symptom) \in state.symptoms
     /\ Len(safety.alerts) <= Cardinality(state.symptoms) + 1

\* a cycle that left a warning alert was followed by a cycle that decided a
\* routine action and left one alert of its own
C27_Witness ==
  /\ ret.op = "process_user_message"
  /\ Len(hist.cycles) >= 2
  /\ hist.cycles[Len(hist.cycles) - 1].alerts > 0
  /\ hist.cycles[Len(hist.cycles) - 1].action_type # "alert_medical"
  /\ ret.action_type \notin {"alert_medical", "observe"}
  /\ Len(safety.alerts) = 1

\* the message of the last cycle reported a negative outcome for a food that an
\* earlier cycle suggested
ReportedFood == DictGet(ret.feedback, "action", None)
ReportedNegativeOnSuggestedFood ==
  /\ ret.op = "process_user_message"
  /\ DictGet(ret.feedback, "outcome", None) = "negative"
  /\ \E i \in 1..(Len(memory.actions) - 1) :
       /\ memory.actions[i].action_type = "suggest_food"
       /\ memory.actions[i].action_text = ReportedFood

\* C28: an outcome report that the parser extracts from a message is applied to
\* the matching logged action: after a message reporting a negative outcome for
\* a food suggested in an earlier cycle, that action has its outcome recorded
\* and should_avoid_suggestion(food) is true.
C28_ReportedOutcomeIsRecorded ==
  ReportedNegativeOnSuggestedFood =>
     /\ \E i \in 1..(Len(memory.actions) - 1) :
          /\ memory.actions[i].action_text = ReportedFood
          /\ memory.actions[i].outcome = "negative"
     /\ should_avoid_suggestion(memory, ReportedFood)

\* C29: unknown keys never abort an operation: apply_ml_signal and
\* apply_user_feedback on an unrecognised nutrient leave the whole belief state
\* unchanged, and learn_from_outcome on an action whose targeted nutrients
\* include an unrecognised nutrient completes without error, ignoring that
\* nutrient.
C29_UnknownNutrientIgnored ==
  [][/\ (ret'.op \in {"apply_ml_signal", "apply_user_feedback"}
           /\ ret'.nutrient \notin Nutrients) => state' = state
     /\ (ret'.op = "learn_from_outcome" /\ ret'.action_id \in LoggedIds) =>
          /\ ~ret'.raised
          /\ ret'.ok
          /\ Len(adaptation_log') = Len(adaptation_log) + 1]_vars

\* C30: every decision that decide returns is recorded exactly once in the
\* decision log, with its timestamp, action kind and details: each call of
\* decide appends the one entry of the action it returns.
C30_EveryDecisionLogged ==
  [][(ret'.op = "decide" /\ ~ret'.raised) =>
       decisions_log' = Append(decisions_log,
                               [timestamp |-> now, action_type |-> ret'.action_type,
                                details |-> ret'.details])]_vars

\* a cycle of process_user_message has just run with a save that failed
CycleWithFailedSave == ret.op = "process_user_message" /\ ret.failure # "none"

\* C31: after a cycle whose save failed, the cycle has returned its response, the
\* action it logged is the last one in memory, and the state's last action and
\* last action date are the cycle's
C31_FailedSaveKeepsCycle ==
  CycleWithFailedSave =>
    /\ ~ret.raised
    /\ Len(memory.actions) > 0
    /\ memory.actions[Len(memory.actions)].action_type = ret.action_type
    /\ memory.actions[Len(memory.actions)].timestamp = ret.at
    /\ state.last_action = ret.action_type
    /\ state.last_action_date = ret.at

\* a cycle suggested a food while both fallback files could not be written
C31_Witness ==
  /\ ret.op = "process_user_message"
  /\ ret.failure = "state_json"
  /\ ret.action_type = "suggest_food"
  /\ ~store.db.exists
  /\ memory.actions[Len(memory.actions)].timestamp = now
  /\ state.last_action = "suggest_food"

\* the reported symptoms are all of the warning set, the state-wide alert
\* condition does not hold, and every alert on record is a warning
WarningSymptomAlone ==
  /\ state.symptoms # {}
  /\ state.symptoms \subseteq WARNING_SYMPTOMS
  /\ ~AlertCondition
  /\ \A i \in 1..Len(safety.alerts) : safety.alerts[i].level = "warning"

\* C32: decide returns ALERT_MEDICAL only when the alert condition holds or a
\* critical symptom is reported; with a warning symptom alone it never does, also
\* on a second call with the same SafetyChecker
C32_WarningNeverAlertsMedical ==
  (ret.op = "decide" /\ WarningSymptomAlone) => ret.action_type # "alert_medical"

\* C33: after a cycle of process_user_message whose save succeeded, the persisted
\* state carries the same last action and last action date as the state in
\* memory
C33_SnapshotRecordsLastAction ==
  (ret.op = "process_user_message" /\ ~ret.raised /\ ret.failure = "none") =>
    /\ load(store).found
    /\ load(store).state.last_action = state.last_action
    /\ load(store).state.last_action_date = state.last_action_date

\* the cycles before the last one that decided something other than OBSERVE
EarlierActingCycles ==
  {i \in 1..(Len(hist.cycles) - 1) : hist.cycles[i].action_type # "observe"}

\* C34: a cycle of process_user_message decides OBSERVE only within 20 hours of
\* the last cycle that decided something else: the OBSERVE cycles in between do
\* not restart the cooldown
C34_ObserveKeepsCooldown ==
  (ret.op = "process_user_message" /\ ~ret.raised /\ ret.action_type = "observe") =>
    \E i \in EarlierActingCycles : ret.at - hist.cycles[i].at <= RATE_LIMIT_HOURS

\* C35: the SUGGEST_FOOD action that a cycle of process_user_message logs into
\* memory carries the pressing nutrient in its nutrients_targeted
C35_LoggedSuggestionTargetsNutrient ==
  (ret.op = "process_user_message" /\ ~ret.raised /\ ret.action_type = "suggest_food") =>
    \E k \in 1..Len(memory.actions[Len(memory.actions)].nutrients_targeted) :
      memory.actions[Len(memory.actions)].nutrients_targeted[k] = ret.details.nutrient

\* C36: learn_from_outcome with outcome negative leaves the confidence of every
\* nutrient the action targets, when it was within [0, 1], at or below its
\* earlier value
C36_NegativeNeverRaisesConfidence ==
  [][(ret'.op = "learn_from_outcome" /\ ret'.outcome = "negative"
        /\ ret'.action_id \in LoggedIds) =>
       \A n \in TargetsOf(ret'.action_id) \cap Nutrients :
         (state.confidence_in_state[n] >= 0 /\ state.confidence_in_state[n] <= 1000) =>
           state'.confidence_in_state[n] <= state.confidence_in_state[n]]_vars

\* C37: while a critical symptom is on record, every step other than
\* clear_symptoms keeps it on record, and every decide in between returns
\* ALERT_MEDICAL, whatever signals, outcomes and hours have gone by
C37_CriticalSymptomAlertsUntilCleared ==
  [][(CriticalSymptomReported /\ ret'.op # "clear_symptoms") =>
       /\ state'.symptoms \cap CRITICAL_SYMPTOMS # {}
       /\ ret'.op = "decide" => (~ret'.raised /\ ret'.action_type = "alert_medical")]_vars

\* decide alerts on a critical symptom reported before a signal, a learnt outcome
\* and 21 hours, with no alert left over from an earlier call and the last action
\* inside the rate limit
C37_Witness ==
  /\ ret.op = "decide"
  /\ ret.action_type = "alert_medical"
  /\ ret.details.symptom = "severe_bleeding"
  /\ Len(safety.alerts) = 1
  /\ state.update_count > 0
  /\ adaptation_log # <<>>
  /\ now > 0
  /\ WithinRateLimit

DecidedKinds ==
  {"alert_medical", "observe", "suggest_food", "suggest_rest", "suggest_water", "check_in"}

\* no food occurs twice in the candidate list of a nutrient
CandidatesDistinct ==
  \A n \in Nutrients :
    \A i, j \in 1..Len(Candidates(n, memory)) :
      Candidates(n, memory)[i] = Candidates(n, memory)[j] => i = j

\* C39: every call of decide ends with one action of the kinds ALERT_MEDICAL,
\* OBSERVE, SUGGEST_FOOD, SUGGEST_REST, SUGGEST_WATER and CHECK_IN, its food
\* search goes over a list without repeated candidates, and OBSERVE is returned
\* only within the rate limit
C39_DecideEndsWithOneAction ==
  ret.op = "decide" =>
    /\ ~ret.raised
    /\ ret.action_type \in DecidedKinds
    /\ CandidatesDistinct
    /\ ret.action_type = "observe" => WithinRateLimit

====
